---- MODULE Spec2Model ----
(***************************************************************************)
(* A model of the rebalancing engine of AptosDeFiHub:                      *)
(*   - executeTransaction   (src/src/libs/hyperion/executeTransaction.ts)  *)
(*   - the worker's fetch / scheduled handlers (src/src/worker.ts)         *)
(*   - executeRebalancing   (src/unnamed/part_006)                         *)
(*   - executeRebalancingFlow (src/unnamed/part_007)                       *)
(* Each component has its own specification over the shared variables; a   *)
(* specification leaves the variables of the other components unchanged.   *)
(***************************************************************************)
EXTENDS Integers, Sequences, FiniteSets, TLC

(***************************************************************************)
(* Program constants                                                       *)
(***************************************************************************)
\* executeTransaction.ts:16  const TRANSACTION_COOLDOWN = 30000
TRANSACTION_COOLDOWN == 30000

\* worker.ts:11  const DEDUPLICATION_WINDOW = 30000
DEDUPLICATION_WINDOW == 30000

\* executeTransaction.ts:123  setTimeout(resolve, 10000) after 'already in mempool'
MEMPOOL_DELAY == 10000

(***************************************************************************)
(* Bounds of the model                                                     *)
(***************************************************************************)
\* number of clock steps the model lets time advance
MaxTicks == 4

\* number of executeTransaction calls
MaxCalls == 2

\* number of handler invocations (fetch with a long command, scheduled) that start work
MaxWorkflows == 3

\* one clock step, in milliseconds (a third of the cooldown window)
ClockStep == TRANSACTION_COOLDOWN \div 3

\* Date.now() is never 0: the clock starts one step after the epoch
ClockStart == ClockStep

MaxClock == ClockStart + MaxTicks * ClockStep

\* "no entry" of a Map<string, number>, and "not yet" of a time stamp
None == 0 - 1

Signatures == {"sigA", "sigB"}

Calls == 1..MaxCalls

\* pool ids; config/pools.ts lists the pools, each with an enabled flag
Pools == {"p1", "p2"}

\* the pools in the order of the configuration's list
DEFAULT_POOLS_TO_MANAGE == <<"p1", "p2">>

\* the pool with name 'APT/stkAPT'
AptStkAptPools == {"p2"}

\* number of positions the account holds
MaxPositions == 3

\* the highest tick
MaxTick == 2

\* the current ticks looked at lie within this distance of 0
TickReach == 130

\* the ticks priceToTick answers lie within this distance of 0
RawReach == 7

\* the highest raw amount an account holds in a balance fetch
HeldReach == 12

\* number of positions handed to filterInactivePositions
MaxBatch == 2

Chats == {"chatA", "chatB"}

\* worker.ts:241  the commands handled in the background
LongCommands == {"/rebalance", "/addliquidity"}

VARIABLES
    clock,                  \* Date.now()
    recentTransactions,     \* executeTransaction.ts: Map signature -> time stamp
    tx_pc,                  \* position of each executeTransaction call
    tx_sig,                 \* txSignature of each call
    tx_now,                 \* the `now` each call captured
    tx_wake,                \* when the call's setTimeout fires
    tx_sim,                 \* outcome of the call's simulation
    tx_recorded,            \* history: the call executed recentTransactions.set
    tx_subTime,             \* history: when the call handed its transaction to the chain
    poolEnabled,            \* config/pools.ts: the enabled flag of each pool
    processingCommands,     \* worker.ts: Map commandId -> time stamp
    scheduleEnabled,        \* scheduleKV: the scheduler's enable flag
    wk_inflight,            \* handler invocations whose background work has not ended
    wk_count,               \* number of invocations that started work
    wk_response,            \* status of the last HTTP response of fetch
    entry,                  \* the function of the orchestrator that was called
    positions,              \* the account's positions: pool and "needs rebalancing"
    wallet,                 \* the wallet's balances of the target pool's tokens, in hundredths
    fl_pc,                  \* executeRebalancingFlow: position in the function
    fl_poolId,              \* options.poolId ("" when absent: automatic mode)
    fl_list,                \* rebalanceCheckResult.inactivePositions
    fl_i,                   \* index of the next entry of the list to process
    fl_missing,             \* the position-less pools still to be processed
    fl_result,              \* the RebalancingResult being built
    fl_started,             \* history: the workflows the call started
    fl_chain,               \* history: hashes of the transactions confirmed on chain
    fl_swaps,               \* history: the swaps executed
    fl_failures,            \* history: the sub-steps that failed
    cl_pc,                  \* filterInactivePositions: in its loop, or returned
    cl_len,                 \* number of positions handed to filterInactivePositions
    cl_i,                   \* index of the next position to analyse
    cl_cur,                 \* history: the position last handled and what was decided
    cl_reads,               \* history: how the analysis of each position went
    cl_flagged,             \* positionsToRebalance, as indexes
    rb_pc,                  \* executeRebalancing: position in the function
    rb_isCreation,          \* inactivePosition.objectId === 'CREATE_NEW'
    rb_send,                \* sendProgressUpdates
    rb_aptPair,             \* the pool is the APT/stkAPT pair
    rb_result,              \* the RebalanceExecutionResult under construction
    rb_log,                 \* history: what the run did on the chain, in order
    rb_failedAt,            \* history: the step whose failure ended the run
    rb_err,                 \* the error the catch block receives
    rb_topupFailed,         \* history: the optional top-up step met a failure
    rb_sendFailed,          \* history: a progress message of the run was not delivered
    rt_pc,                  \* amounts of one creation: ratio read, swap, payload, done
    rt_pool,                \* token1Symbol and token2Symbol of the pool
    rt_wallet,              \* the wallet: raw token1 and token2 balances
    rt_bal,                 \* the balances as the run last read them
    rt_attempts,            \* attempts made by the last balance read loop
    rt_queries,             \* oracle queries made by getCreatePoolPayload
    rt_steps,               \* history: the steps the run has taken
    rt_workflow,            \* executeRebalancing, or the flow's creation for a missing pool
    rt_market,              \* marketPrice, liquidityRatio, and whether the SDK answers
    rt_ratio,               \* the ratio data last read
    rt_spends,              \* history: the amounts taken from the wallet, in order
    rt_payload,             \* the create-position payload, or the error thrown
    cy_pc,                  \* automatic cycles: between cycles, or at work in one
    cy_status,              \* for each pool: no position, an active or an inactive one
    cy_queue,               \* the pools whose work is left in the running cycle
    cy_attempted,           \* history: the pools a creation was attempted for
    tk_pc,                  \* tick range of a new position: before or after the computation
    tk_pool,                \* currentTick and tickSpacing of the pool
    tk_rangePercent,        \* the rangePercent asked for, or None
    tk_raw,                 \* what priceToTick answers for the lower and the upper price
    tk_ticks,               \* tickLower and tickUpper as computed
    fb_pc,                  \* one balance fetch: in the try, in the catch, returned or thrown
    fb_fn,                  \* fetchTokenBalance or fetchAPTBalance
    fb_held,                \* what the account holds: raw amount and decimals of the asset
    fb_attempt,             \* the attempt of the loop
    fb_error,               \* the error the catch received
    fb_result               \* the TokenBalance returned

txVars == <<recentTransactions, tx_pc, tx_sig, tx_now, tx_wake, tx_sim, tx_recorded, tx_subTime>>

wkVars == <<processingCommands, scheduleEnabled, wk_inflight, wk_count, wk_response>>

flVars == <<positions, wallet, fl_pc, fl_poolId, fl_list, fl_i, fl_missing, fl_result, fl_started, fl_chain, fl_swaps, fl_failures>>

clVars == <<cl_pc, cl_len, cl_i, cl_cur, cl_reads, cl_flagged>>

rbVars == <<rb_pc, rb_isCreation, rb_send, rb_aptPair, rb_result, rb_log, rb_failedAt, rb_err, rb_topupFailed, rb_sendFailed>>

rtVars == <<rt_pc, rt_pool, rt_wallet, rt_bal, rt_attempts, rt_queries, rt_steps, rt_workflow, rt_market, rt_ratio, rt_spends, rt_payload>>

cyVars == <<cy_pc, cy_status, cy_queue, cy_attempted>>

tkVars == <<tk_pc, tk_pool, tk_rangePercent, tk_raw, tk_ticks>>

fbVars == <<fb_pc, fb_fn, fb_held, fb_attempt, fb_error, fb_result>>

vars == <<clock, poolEnabled, txVars, wkVars, entry, rbVars, flVars, clVars, rtVars, cyVars, tkVars, fbVars>>

(***************************************************************************)
(* Configuration                                                           *)
(***************************************************************************)
\* config/pools.ts: DEFAULT_POOLS_TO_MANAGE, a compile-time list; the model covers
\* every assignment of the enabled flags
ConfigInit == poolEnabled \in [Pools -> BOOLEAN]

\* A mutant of EnabledPools: the enabled flag is ignored.
EnabledPoolsIgnoringFlag == Pools

\* part_006:517-518  poolsToMonitor.filter(p => p.enabled)
EnabledPools == {p \in Pools : poolEnabled[p]}

(***************************************************************************)
(* Time                                                                    *)
(***************************************************************************)
Tick ==
    /\ clock < MaxClock
    /\ clock' = clock + ClockStep

(***************************************************************************)
(* executeTransaction                                                      *)
(***************************************************************************)
\* cleanupOldTransactions: delete every entry older than the cooldown
cleanupOldTransactions(table, now) ==
    [s \in Signatures |->
        IF table[s] # None /\ now - table[s] > TRANSACTION_COOLDOWN THEN None ELSE table[s]]

\* `if (lastSubmission && (now - lastSubmission) < TRANSACTION_COOLDOWN)`
\* (lastSubmission is undefined when there is no entry, and 0 is falsy)
MustWait(lastSubmission, now) ==
    /\ lastSubmission # None
    /\ lastSubmission # 0
    /\ (now - lastSubmission) < TRANSACTION_COOLDOWN

\* `const waitTime = TRANSACTION_COOLDOWN - (now - lastSubmission)`
WaitTime(lastSubmission, now) == TRANSACTION_COOLDOWN - (now - lastSubmission)

\* A mutant of AfterSimulation: the simulation's verdict is ignored.
AfterSimulationIgnored(outcome) == "sign"

\* lines 70-89: a simulation that reports failure or raises makes the call throw
AfterSimulation(outcome) == IF outcome = "success" THEN "sign" ELSE "thrown"

SimOutcomes == {"success", "failure", "error"}

\* the calls are numbered in the order they are made
NextCall(c) == tx_pc[c] = "idle" /\ \A d \in Calls : d < c => tx_pc[d] # "idle"

\* lines 33-49: entry of the call up to the first await
TxCall(c, s) ==
    /\ NextCall(c)
    /\ LET table == cleanupOldTransactions(recentTransactions, clock)
           last  == table[s]
       IN  /\ recentTransactions' = table
           /\ tx_sig' = [tx_sig EXCEPT ![c] = s]
           /\ tx_now' = [tx_now EXCEPT ![c] = clock]
           /\ IF MustWait(last, clock)
                 THEN /\ tx_pc' = [tx_pc EXCEPT ![c] = "wait"]
                      /\ tx_wake' = [tx_wake EXCEPT ![c] = clock + WaitTime(last, clock)]
                 ELSE /\ tx_pc' = [tx_pc EXCEPT ![c] = "build"]
                      /\ UNCHANGED tx_wake
    /\ UNCHANGED <<clock, tx_sim, tx_recorded, tx_subTime>>

\* line 48: the timer of the cooldown wait fires
TxWake(c) ==
    /\ tx_pc[c] = "wait"
    /\ clock >= tx_wake[c]
    /\ tx_pc' = [tx_pc EXCEPT ![c] = "build"]
    /\ UNCHANGED <<clock, recentTransactions, tx_sig, tx_now, tx_wake, tx_sim, tx_recorded, tx_subTime>>

\* lines 59-66: aptos.transaction.build.simple returns or throws
TxBuild(c) ==
    /\ tx_pc[c] = "build"
    /\ \E ok \in BOOLEAN :
          tx_pc' = [tx_pc EXCEPT ![c] = IF ok THEN "simulate" ELSE "thrown"]
    /\ UNCHANGED <<clock, recentTransactions, tx_sig, tx_now, tx_wake, tx_sim, tx_recorded, tx_subTime>>

\* lines 68-89: simulate, and fail fast
TxSimulate(c) ==
    /\ tx_pc[c] = "simulate"
    /\ \E outcome \in SimOutcomes :
          /\ tx_sim' = [tx_sim EXCEPT ![c] = outcome]
          /\ tx_pc' = [tx_pc EXCEPT ![c] = AfterSimulation(outcome)]
    /\ UNCHANGED <<clock, recentTransactions, tx_sig, tx_now, tx_wake, tx_recorded, tx_subTime>>

\* lines 91-100: record the signature under the captured `now`, sign and submit
TxSubmit(c) ==
    /\ tx_pc[c] = "sign"
    /\ recentTransactions' = [recentTransactions EXCEPT ![tx_sig[c]] = tx_now[c]]
    /\ tx_recorded' = [tx_recorded EXCEPT ![c] = TRUE]
    /\ \E outcome \in {"accepted", "mempool", "rejected"} :
          CASE outcome = "accepted" ->
                  /\ tx_subTime' = [tx_subTime EXCEPT ![c] = clock]
                  /\ tx_pc' = [tx_pc EXCEPT ![c] = "confirm"]
                  /\ UNCHANGED tx_wake
            [] outcome = "mempool" ->
                  \* lines 120-124: 'already in mempool' delays the rethrow
                  /\ tx_pc' = [tx_pc EXCEPT ![c] = "backoff"]
                  /\ tx_wake' = [tx_wake EXCEPT ![c] = clock + MEMPOOL_DELAY]
                  /\ UNCHANGED tx_subTime
            [] OTHER ->
                  /\ tx_pc' = [tx_pc EXCEPT ![c] = "thrown"]
                  /\ UNCHANGED <<tx_wake, tx_subTime>>
    /\ UNCHANGED <<clock, tx_sig, tx_now, tx_sim>>

\* lines 120-126: the delay after 'already in mempool' ends and the error is rethrown
TxBackoff(c) ==
    /\ tx_pc[c] = "backoff"
    /\ clock >= tx_wake[c]
    /\ tx_pc' = [tx_pc EXCEPT ![c] = "thrown"]
    /\ UNCHANGED <<clock, recentTransactions, tx_sig, tx_now, tx_wake, tx_sim, tx_recorded, tx_subTime>>

\* lines 102-113: waitForTransaction returns (confirmed) or throws
TxConfirm(c) ==
    /\ tx_pc[c] = "confirm"
    /\ \E ok \in BOOLEAN :
          tx_pc' = [tx_pc EXCEPT ![c] = IF ok THEN "returned" ELSE "thrown"]
    /\ UNCHANGED <<clock, recentTransactions, tx_sig, tx_now, tx_wake, tx_sim, tx_recorded, tx_subTime>>

TxInit ==
    /\ recentTransactions = [s \in Signatures |-> None]
    /\ tx_pc = [c \in Calls |-> "idle"]
    /\ tx_sig = [c \in Calls |-> "sigA"]
    /\ tx_now = [c \in Calls |-> None]
    /\ tx_wake = [c \in Calls |-> None]
    /\ tx_sim = [c \in Calls |-> "none"]
    /\ tx_recorded = [c \in Calls |-> FALSE]
    /\ tx_subTime = [c \in Calls |-> None]

TxTick == Tick /\ UNCHANGED <<poolEnabled, txVars, wkVars, entry, rbVars, flVars, clVars, rtVars, cyVars, tkVars, fbVars>>

TxOthers == UNCHANGED <<poolEnabled, wkVars, entry, rbVars, flVars, clVars, rtVars, cyVars, tkVars, fbVars>>

TxNext ==
    \/ TxTick
    \/ \E c \in Calls, s \in Signatures : TxCall(c, s) /\ TxOthers
    \/ \E c \in Calls : TxWake(c) /\ TxOthers
    \/ \E c \in Calls : TxBuild(c) /\ TxOthers
    \/ \E c \in Calls : TxSimulate(c) /\ TxOthers
    \/ \E c \in Calls : TxSubmit(c) /\ TxOthers
    \/ \E c \in Calls : TxBackoff(c) /\ TxOthers
    \/ \E c \in Calls : TxConfirm(c) /\ TxOthers

(***************************************************************************)
(* Properties of executeTransaction                                        *)
(***************************************************************************)
\* the distance of two points in time
Apart(a, b) == IF a >= b THEN a - b ELSE b - a

\* C5: two transactions with the same (sender, function, arguments) signature are
\* never handed to the chain less than TRANSACTION_COOLDOWN apart.
C5_CooldownBetweenSubmissions ==
    \A c \in Calls, d \in Calls :
        (/\ c # d
         /\ tx_sig[c] = tx_sig[d]
         /\ tx_subTime[c] # None
         /\ tx_subTime[d] # None)
        => Apart(tx_subTime[c], tx_subTime[d]) >= TRANSACTION_COOLDOWN

\* C8: a call whose simulation reported failure or raised an error has thrown, has
\* not handed a transaction to the chain and has recorded nothing; every entry of
\* the recent-transactions table comes from a call whose simulation succeeded.
C8_NoSubmitAfterFailedSimulation ==
    /\ \A c \in Calls :
          tx_sim[c] \in {"failure", "error"}
          => /\ tx_pc[c] = "thrown"
             /\ tx_subTime[c] = None
             /\ ~tx_recorded[c]
    /\ \A s \in Signatures :
          recentTransactions[s] # None
          => \E c \in Calls :
                /\ tx_sig[c] = s
                /\ tx_sim[c] = "success"
                /\ tx_recorded[c]
                /\ tx_now[c] = recentTransactions[s]

\* C8 witness: a simulation failed for a signature while another call of the same
\* signature went through, so the table holds an entry that the failed call left alone.
C8_Witness ==
    \E c \in Calls, d \in Calls :
        /\ tx_sim[c] \in {"failure", "error"}
        /\ tx_pc[c] = "thrown"
        /\ tx_sig[d] = tx_sig[c]
        /\ tx_subTime[d] # None
        /\ recentTransactions[tx_sig[c]] = tx_now[d]

(***************************************************************************)
(* The worker: fetch (webhook) and scheduled (cron) handlers               *)
(***************************************************************************)
\* cleanupOldCommands: delete every entry older than the deduplication window.
\* An entry is the key `${chatId}_${text}_${now}` with its time stamp.
cleanupOldCommands(table, now) ==
    {e \in table : ~(now - e.ts > DEDUPLICATION_WINDOW)}

\* worker.ts:249-257: an entry of this chat whose key holds the command word and
\* that is younger than the window
IsAlreadyProcessing(table, chat, word, now) ==
    \E e \in table :
        /\ e.chat = chat
        /\ e.word = word
        /\ (now - e.ts) < DEDUPLICATION_WINDOW

\* the pools a piece of background work rebalances: the pool of a /rebalance
\* command, every enabled pool for the scheduler, none for /addliquidity
Scope(w) ==
    CASE w.origin = "scheduled" -> EnabledPools
      [] w.word = "/rebalance" -> {w.pool}
      [] OTHER -> {}

\* fetch with a long command of a chat (worker.ts:228-279)
FetchLong(chat, word, pool) ==
    /\ wk_count < MaxWorkflows
    /\ LET table == cleanupOldCommands(processingCommands, clock)
       IN  IF IsAlreadyProcessing(table, chat, word, clock)
             THEN /\ processingCommands' = table
                  /\ wk_response' = "200 dropped"
                  /\ UNCHANGED <<wk_inflight, wk_count>>
             ELSE /\ processingCommands' =
                        table \cup {[chat |-> chat, word |-> word, pool |-> pool, ts |-> clock]}
                  /\ wk_inflight' = wk_inflight \cup
                        {[id |-> wk_count + 1, origin |-> "fetch", chat |-> chat,
                          word |-> word, pool |-> pool, ts |-> clock]}
                  /\ wk_count' = wk_count + 1
                  /\ wk_response' = "200 started"
    /\ UNCHANGED <<clock, poolEnabled, scheduleEnabled, txVars, entry, rbVars, flVars, clVars, rtVars, cyVars, tkVars, fbVars>>

\* fetch with any other update: handled by the bot, or 500 when handling throws
\* (worker.ts:280-294)
FetchRegular ==
    /\ processingCommands' = cleanupOldCommands(processingCommands, clock)
    /\ \E status \in {"200 regular", "500"} : wk_response' = status
    /\ UNCHANGED <<clock, poolEnabled, scheduleEnabled, wk_inflight, wk_count, txVars, entry, rbVars, flVars, clVars, rtVars, cyVars, tkVars, fbVars>>

\* processLongCommand ends, and `.finally` deletes the command's entry
\* (worker.ts:271-276)
LongCommandEnds(w) ==
    /\ w \in wk_inflight
    /\ w.origin = "fetch"
    /\ wk_inflight' = wk_inflight \ {w}
    /\ processingCommands' =
          {e \in processingCommands : ~(e.chat = w.chat /\ e.word = w.word /\ e.pool = w.pool /\ e.ts = w.ts)}
    /\ UNCHANGED <<clock, poolEnabled, scheduleEnabled, wk_count, wk_response, txVars, entry, rbVars, flVars, clVars, rtVars, cyVars, tkVars, fbVars>>

\* scheduled: nothing when the schedule is disabled, else the automatic flow
\* (worker.ts:297-333)
Scheduled ==
    /\ wk_count < MaxWorkflows
    /\ IF scheduleEnabled
          THEN /\ wk_inflight' = wk_inflight \cup
                     {[id |-> wk_count + 1, origin |-> "scheduled", chat |-> "none",
                       word |-> "none", pool |-> "none", ts |-> clock]}
               /\ wk_count' = wk_count + 1
          ELSE UNCHANGED <<wk_inflight, wk_count>>
    /\ UNCHANGED <<clock, poolEnabled, processingCommands, scheduleEnabled, wk_response, txVars, entry, rbVars, flVars, clVars, rtVars, cyVars, tkVars, fbVars>>

\* the scheduled handler's work ends (worker.ts:333-398)
ScheduledEnds(w) ==
    /\ w \in wk_inflight
    /\ w.origin = "scheduled"
    /\ wk_inflight' = wk_inflight \ {w}
    /\ UNCHANGED <<clock, poolEnabled, processingCommands, scheduleEnabled, wk_count, wk_response, txVars, entry, rbVars, flVars, clVars, rtVars, cyVars, tkVars, fbVars>>

\* setScheduleConfig (scheduleKV): the bot's command toggles the flag
ToggleSchedule ==
    /\ scheduleEnabled' = ~scheduleEnabled
    /\ UNCHANGED <<clock, poolEnabled, processingCommands, wk_inflight, wk_count, wk_response, txVars, entry, rbVars, flVars, clVars, rtVars, cyVars, tkVars, fbVars>>

WkInit ==
    /\ processingCommands = {}
    /\ scheduleEnabled = TRUE
    /\ wk_inflight = {}
    /\ wk_count = 0
    /\ wk_response = "none"

WkTick == Tick /\ UNCHANGED <<poolEnabled, txVars, wkVars, entry, rbVars, flVars, clVars, rtVars, cyVars, tkVars, fbVars>>

WkNext ==
    \/ WkTick
    \/ \E chat \in Chats, word \in LongCommands, pool \in Pools : FetchLong(chat, word, pool)
    \/ FetchRegular
    \/ \E w \in wk_inflight : LongCommandEnds(w)
    \/ Scheduled
    \/ \E w \in wk_inflight : ScheduledEnds(w)
    \/ ToggleSchedule

\* C3: at most one rebalancing workflow is in flight for a pool (the account is
\* the single account of env.PRIVATE_KEY), whatever triggers fire.
C3_OneWorkflowPerPool ==
    \A p \in Pools : Cardinality({w \in wk_inflight : p \in Scope(w)}) <= 1

\* C4: while a /rebalance or /addliquidity workflow started from a chat is in
\* flight, a second identical command of that chat starts no second workflow.
C4_SecondCommandDropped ==
    \A w \in wk_inflight, v \in wk_inflight :
        (/\ w.origin = "fetch"
         /\ v.origin = "fetch"
         /\ w.chat = v.chat
         /\ w.word = v.word
         /\ w.pool = v.pool)
        => w = v


(***************************************************************************)
(* Notifications                                                           *)
(***************************************************************************)
\* what a send to Telegram can meet: the API answers ok or not ok, fetch raises,
\* or the module cannot be loaded
NotifyOutcomes == {"ok", "not ok", "network error", "import fails"}

\* sendTelegramMessage (part_003:15-84): true when the API answers ok, false when
\* it does not or when fetch raises; it never throws
sendTelegramMessage(o) == IF o = "ok" THEN "true" ELSE "false"

\* A mutant of sendProgressMessage: a failed send is raised to the caller.
sendProgressMessageRaising(o) == IF o = "ok" THEN "returns" ELSE "throws"

\* sendProgressMessage (part_006:53-61): the import and the send are inside
\* try/catch and the catch only logs, so the call returns whatever happened
sendProgressMessage(o) == "returns"

(***************************************************************************)
(* executeRebalancing: remove -> swap -> create -> optional top-up         *)
(***************************************************************************)
\* line 74-86: the result the run starts with
EmptyResult ==
    [success |-> FALSE, positionRemoved |-> FALSE, swapExecuted |-> FALSE,
     newPositionCreated |-> FALSE, additionalLiquidityAdded |-> FALSE,
     transactionHashes |-> <<>>, swapDetails |-> <<>>, newPositions |-> <<>>,
     error |-> ""]

\* what `await executeTransaction(...)` can do, seen from its caller: return once
\* the transaction is confirmed, or throw before the submission (build, simulation,
\* signing) or after it (waitForTransaction failed)
ExecOutcomes == {"confirmed", "simulation failed", "not submitted", "unconfirmed"}

\* the transaction reached the chain
Submitted(outcome) == outcome \in {"confirmed", "unconfirmed"}

\* A mutant of Returns: the caller goes on as soon as the transaction is submitted.
ReturnsOnSubmit(outcome) == outcome \in {"confirmed", "unconfirmed"}

\* executeTransaction returns (executeTransaction.ts:105-113) only after
\* waitForTransaction; every other outcome is a throw
Returns(outcome) == outcome = "confirmed"

\* the events a call of executeTransaction adds to the run's history
TxEvents(kind, outcome) ==
    (IF Submitted(outcome) THEN <<kind \o " submitted">> ELSE <<>>)
    \o (IF outcome = "confirmed" THEN <<kind \o " confirmed">> ELSE <<>>)

\* A mutant of CatchResult: the catch block reports a fresh result and loses the
\* progress made.
CatchResultFresh(res, err) == [EmptyResult EXCEPT !.error = err]

\* lines 438-443: the catch block keeps the details and adds the error
CatchResult(res, err) == [res EXCEPT !.success = FALSE, !.error = err]

\* lines 128-129: the removal is recorded
Removed(res) ==
    [res EXCEPT !.positionRemoved = TRUE, !.transactionHashes = Append(@, "remove")]

\* A mutant of Swapped: the flag is set and nothing else is recorded.
SwappedFlagOnly(res) == [res EXCEPT !.swapExecuted = TRUE]

\* lines 178-188: the swap is recorded
Swapped(res) ==
    [res EXCEPT !.transactionHashes = Append(@, "swap"),
                !.swapDetails = Append(@, "swap"),
                !.swapExecuted = TRUE]

\* lines 316-317: the creation is recorded
CreatedTx(res) ==
    [res EXCEPT !.newPositionCreated = TRUE, !.transactionHashes = Append(@, "create")]

\* lines 330-334: the new position is listed
Listed(res) == [res EXCEPT !.newPositions = Append(@, "position")]

\* lines 379-395: a successful top-up is recorded, a failed one only logged
ToppedUp(res, r) ==
    IF r.success
       THEN [res EXCEPT
               !.additionalLiquidityAdded = TRUE,
               !.transactionHashes = @ \o r.transactionHashes,
               !.swapDetails = IF r.swapExecuted THEN Append(@, "top-up swap") ELSE @]
       ELSE res

\* line 408: the run succeeded
Succeeded(res) == [res EXCEPT !.success = TRUE]

\* A mutant of AfterSwapStep: the final balances are read without the delay.
AfterSwapStepNoDelay == "ratio2"

\* lines 211-217: after the swap step (executed or skipped) the run waits 5 s
AfterSwapStep == "settle"

\* String(error) of the error a step raises; no caller looks into the text, so
\* one text stands for all
ErrorOf(step) == "Error"

\* the run enters its catch block with the error of `step`
RbFail(step) ==
    /\ rb_pc' = "catch"
    /\ rb_failedAt' = step
    /\ rb_err' = ErrorOf(step)

\* a progress message, sent only when sendProgressUpdates is set; TRUE when the
\* run continues after it
Progress(o) == ~rb_send \/ sendProgressMessage(o) = "returns"

\* the history of the sends: the step sends its message when `sent` holds, and
\* the message is delivered only when the send met outcome "ok"
Notified(sent, o) == rb_sendFailed' = (rb_sendFailed \/ (sent /\ rb_send /\ o # "ok"))

RbKeep == UNCHANGED <<clock, poolEnabled, txVars, wkVars, entry, rb_isCreation, rb_send, rb_aptPair, flVars, clVars, rtVars, cyVars, tkVars, fbVars>>

\* A mutant of AfterStart: the removal is the first step of every run.
AfterStartAlwaysRemove(isCreation) == "removePayload"

\* lines 102-121: a creation request skips the removal
AfterStart(isCreation) == IF isCreation THEN "ratio1" ELSE "removePayload"

\* lines 91-121: load the account, announce the run
RbStart ==
    /\ entry = "executeRebalancing"
    /\ rb_pc = "start"
    /\ \E accountOk \in BOOLEAN, o \in NotifyOutcomes :
          /\ Notified(accountOk, o)
          /\ IF ~accountOk THEN RbFail("getAccount")
             ELSE IF ~Progress(o) THEN RbFail("progress message")
             ELSE /\ rb_pc' = AfterStart(rb_isCreation)
                  /\ UNCHANGED <<rb_failedAt, rb_err>>
    /\ UNCHANGED <<rb_result, rb_log, rb_topupFailed>>
    /\ RbKeep

\* line 125: getRemoveLiquidityPayload
RbRemovePayload ==
    /\ rb_pc = "removePayload"
    /\ \E ok \in BOOLEAN :
          IF ok THEN rb_pc' = "removeExec" /\ UNCHANGED <<rb_failedAt, rb_err>>
          ELSE RbFail("removePayload")
    /\ rb_log' = Append(rb_log, "remove payload asked")
    /\ UNCHANGED <<rb_result, rb_topupFailed>>
    /\ UNCHANGED rb_sendFailed
    /\ RbKeep

\* lines 126-138: execute the removal, record it
RbRemoveExec ==
    /\ rb_pc = "removeExec"
    /\ \E outcome \in ExecOutcomes, o \in NotifyOutcomes :
          /\ Notified(Returns(outcome), o)
          /\ rb_log' = rb_log \o TxEvents("remove", outcome)
          /\ IF Returns(outcome)
                THEN /\ rb_result' = Removed(rb_result)
                     /\ IF Progress(o)
                           THEN rb_pc' = "ratio1" /\ UNCHANGED <<rb_failedAt, rb_err>>
                           ELSE RbFail("progress message")
                ELSE /\ RbFail("removeExec")
                     /\ UNCHANGED rb_result
    /\ UNCHANGED rb_topupFailed
    /\ RbKeep

\* lines 144-161 and 198-209: read the ratio, decide on the swap
RbRatio1 ==
    /\ rb_pc = "ratio1"
    /\ \E data \in {"null", "swap", "no swap"}, o \in NotifyOutcomes :
          /\ Notified(data # "null", o)
          /\ rb_log' = Append(rb_log, "ratio read")
          /\ CASE data = "null" -> RbFail("ratio")
               [] ~Progress(o) -> RbFail("progress message")
               [] data = "swap" -> rb_pc' = "swapPayload" /\ UNCHANGED <<rb_failedAt, rb_err>>
               [] OTHER -> rb_pc' = AfterSwapStep /\ UNCHANGED <<rb_failedAt, rb_err>>
    /\ UNCHANGED <<rb_result, rb_topupFailed>>
    /\ RbKeep

\* lines 164-175: getSwapPayload for 90% of the recommended amount
RbSwapPayload ==
    /\ rb_pc = "swapPayload"
    /\ \E ok \in BOOLEAN :
          IF ok THEN rb_pc' = "swapExec" /\ UNCHANGED <<rb_failedAt, rb_err>>
          ELSE RbFail("swapPayload")
    /\ UNCHANGED <<rb_result, rb_log, rb_topupFailed>>
    /\ UNCHANGED rb_sendFailed
    /\ RbKeep

\* lines 177-197: execute the swap, record it
RbSwapExec ==
    /\ rb_pc = "swapExec"
    /\ \E outcome \in ExecOutcomes, o \in NotifyOutcomes :
          /\ Notified(Returns(outcome), o)
          /\ rb_log' = rb_log \o TxEvents("swap", outcome)
          /\ IF Returns(outcome)
                THEN /\ rb_result' = Swapped(rb_result)
                     /\ IF Progress(o)
                           THEN rb_pc' = AfterSwapStep /\ UNCHANGED <<rb_failedAt, rb_err>>
                           ELSE RbFail("progress message")
                ELSE /\ RbFail("swapExec")
                     /\ UNCHANGED rb_result
    /\ UNCHANGED rb_topupFailed
    /\ RbKeep

\* lines 215-217: the settlement delay of 5 s
RbSettle ==
    /\ rb_pc = "settle"
    /\ rb_pc' = "ratio2"
    /\ rb_log' = Append(rb_log, "delay")
    /\ UNCHANGED <<rb_result, rb_failedAt, rb_err, rb_topupFailed>>
    /\ UNCHANGED rb_sendFailed
    /\ RbKeep

\* lines 219-258: read the final balances, the APT/stkAPT safety check
RbRatio2 ==
    /\ rb_pc = "ratio2"
    /\ \E data \in {"null", "data"}, hasToken1 \in BOOLEAN, hasToken2 \in BOOLEAN,
          o \in NotifyOutcomes :
          /\ Notified(data # "null" /\ ~(rb_aptPair /\ ~hasToken1 /\ ~hasToken2), o)
          /\ rb_log' = Append(rb_log, "final read")
          /\ CASE data = "null" -> RbFail("final ratio")
               [] rb_aptPair /\ ~hasToken1 /\ ~hasToken2 -> RbFail("safety check")
               [] ~Progress(o) -> RbFail("progress message")
               [] OTHER -> rb_pc' = "createPayload" /\ UNCHANGED <<rb_failedAt, rb_err>>
    /\ UNCHANGED <<rb_result, rb_topupFailed>>
    /\ RbKeep

\* lines 268-283 and 288-313: getCreatePoolPayload; an error naming
\* INSUFFICIENT_BALANCE leads to the diagnostic read
RbCreatePayload ==
    /\ rb_pc = "createPayload"
    /\ \E r \in {"ok", "INSUFFICIENT_BALANCE", "other error"} :
          CASE r = "ok" -> rb_pc' = "createExec" /\ UNCHANGED <<rb_failedAt, rb_err>>
            [] r = "INSUFFICIENT_BALANCE" ->
                  /\ rb_pc' = "debugRatio"
                  /\ rb_failedAt' = "createPayload"
                  /\ UNCHANGED rb_err
            [] OTHER -> RbFail("createPayload")
    /\ UNCHANGED <<rb_result, rb_log, rb_topupFailed>>
    /\ UNCHANGED rb_sendFailed
    /\ RbKeep

\* lines 286-334: execute the creation, record it
RbCreateExec ==
    /\ rb_pc = "createExec"
    /\ \E outcome \in ExecOutcomes, insufficient \in BOOLEAN, o \in NotifyOutcomes :
          /\ Notified(Returns(outcome), o)
          /\ rb_log' = rb_log \o TxEvents("create", outcome)
          /\ IF Returns(outcome)
                THEN /\ IF Progress(o)
                           THEN /\ rb_result' = Listed(CreatedTx(rb_result))
                                /\ rb_pc' = "postRatio"
                                /\ UNCHANGED <<rb_failedAt, rb_err>>
                           ELSE /\ rb_result' = CreatedTx(rb_result)
                                /\ RbFail("progress message")
                ELSE /\ UNCHANGED rb_result
                     /\ IF insufficient
                           THEN /\ rb_pc' = "debugRatio"
                                /\ rb_failedAt' = "createExec"
                                /\ UNCHANGED rb_err
                           ELSE RbFail("createExec")
    /\ UNCHANGED rb_topupFailed
    /\ RbKeep

\* A mutant of AfterDiagnostic: the creation is tried again with the balances
\* just read.
AfterDiagnosticRetry == "createPayload"

\* lines 307-311: after the diagnostic read the error is raised to the catch
\* block of the run
AfterDiagnostic == "catch"

\* lines 294-309: one diagnostic read of the balances, then the error is raised
RbDebugRatio ==
    /\ rb_pc = "debugRatio"
    /\ rb_log' = Append(rb_log, "diagnostic read")
    /\ rb_pc' = AfterDiagnostic
    /\ rb_err' = ErrorOf("insufficient balance")
    /\ UNCHANGED <<rb_result, rb_failedAt, rb_topupFailed>>
    /\ UNCHANGED rb_sendFailed
    /\ RbKeep

\* A mutant of AfterTopUp: a failure of the optional step ends the run failed.
AfterTopUpFailing(failed) == IF failed THEN "catch" ELSE "finish"

\* lines 337-406: the optional step sits in a try whose catch only logs, and
\* its failed branches only log: the run goes on to line 408 however it went
AfterTopUp(failed) == "finish"

\* lines 339-353 and 399-406: read what is left after the creation
RbPostRatio ==
    /\ rb_pc = "postRatio"
    /\ \E data \in {"null", "meaningful", "dust"} :
          /\ rb_pc' = IF data = "meaningful" THEN "positions" ELSE AfterTopUp(data = "null")
          /\ rb_topupFailed' = (data = "null")
    /\ rb_log' = Append(rb_log, "leftover read")
    /\ UNCHANGED <<rb_result, rb_failedAt, rb_err>>
    /\ UNCHANGED rb_sendFailed
    /\ RbKeep

\* the positions of the pool that getAllPositions can list after the creation:
\* the one the run created and positions opened before it (the one the run
\* removed while the list still shows it, or another one of the owner)
PoolPositions ==
    { [objectId |-> "removed position", createdAt |-> 1],
      [objectId |-> "other position",   createdAt |-> 2],
      [objectId |-> "created position", createdAt |-> 3] }

\* lines 364-368: the listed position of the pool with the latest createdAt
newestPosition(poolPositions) ==
    CHOOSE p \in poolPositions : \A q \in poolPositions : q.createdAt <= p.createdAt

\* lines 358-377 and 396-406: look for the position to top up; the one found
\* is the positionId executeAddLiquidity is called with
RbPositions ==
    /\ rb_pc = "positions"
    /\ \E throws \in BOOLEAN, poolPositions \in SUBSET PoolPositions :
          LET found == ~throws /\ poolPositions # {} IN
          /\ throws => poolPositions = {}
          /\ rb_isCreation => "removed position" \notin { q.objectId : q \in poolPositions }
          /\ rb_pc' = IF found THEN "addLiquidity" ELSE AfterTopUp(TRUE)
          /\ rb_topupFailed' = ~found
          /\ rb_log' = rb_log \o
                (IF ~throws THEN <<IF "created position" \in { q.objectId : q \in poolPositions }
                                      THEN "list shows created position"
                                      ELSE "list lags">> ELSE <<>>)
                \o (IF found THEN <<"add liquidity to " \o newestPosition(poolPositions).objectId>>
                             ELSE <<>>)
    /\ UNCHANGED <<rb_result, rb_failedAt, rb_err>>
    /\ UNCHANGED rb_sendFailed
    /\ RbKeep

\* what executeAddLiquidity returns (part_007:1394-1749): it never throws; its
\* hashes hold the swap once that is confirmed and the addition once that is
AddLiquidityResults ==
    { [success |-> TRUE,  swapExecuted |-> FALSE, transactionHashes |-> <<"top-up add">>],
      [success |-> TRUE,  swapExecuted |-> TRUE,  transactionHashes |-> <<"top-up swap", "top-up add">>],
      [success |-> FALSE, swapExecuted |-> FALSE, transactionHashes |-> <<>>],
      [success |-> FALSE, swapExecuted |-> TRUE,  transactionHashes |-> <<"top-up swap">>] }

\* lines 371-395: one executeAddLiquidity call; its failure is only logged
RbAddLiquidity ==
    /\ rb_pc = "addLiquidity"
    /\ \E r \in AddLiquidityResults :
          /\ rb_result' = ToppedUp(rb_result, r)
          /\ rb_topupFailed' = ~r.success
          /\ rb_log' = rb_log \o [i \in 1..Len(r.transactionHashes) |->
                                     r.transactionHashes[i] \o " confirmed"]
          /\ rb_pc' = AfterTopUp(~r.success)
    /\ UNCHANGED <<rb_failedAt, rb_err>>
    /\ UNCHANGED rb_sendFailed
    /\ RbKeep

\* lines 408-436: success, the completion message, return
RbFinish ==
    /\ rb_pc = "finish"
    /\ rb_result' = Succeeded(rb_result)
    /\ \E o \in NotifyOutcomes :
          /\ Notified(TRUE, o)
          /\ IF Progress(o) THEN rb_pc' = "returned" /\ UNCHANGED <<rb_failedAt, rb_err>>
             ELSE RbFail("progress message")
    /\ UNCHANGED <<rb_log, rb_topupFailed>>
    /\ RbKeep

\* the steps whose error is the error of a remote call, rethrown as it is
\* (swap.ts:92-94, executeTransaction.ts:126, part_005:270-273): its text can be
\* the platform's 'Too many subrequests'
RateLimitSteps ==
    {"removePayload", "removeExec", "swapPayload", "swapExec", "createPayload", "createExec"}

\* lines 438-464: the catch block: the error, the failure message, return.
\* `limited`: the error received is a rate-limit failure of the platform; the
\* block does not look at the text.
RbCatch ==
    /\ rb_pc = "catch"
    /\ rb_result' = CatchResult(rb_result, rb_err)
    /\ \E o \in NotifyOutcomes, limited \in BOOLEAN :
          /\ limited => rb_failedAt \in RateLimitSteps
          /\ Notified(TRUE, o)
          /\ rb_log' = rb_log \o (IF limited THEN <<"rate limit">> ELSE <<>>)
                               \o (IF rb_send THEN <<"failure message">> ELSE <<>>)
          /\ rb_pc' = IF Progress(o) THEN "returned" ELSE "thrown"
    /\ UNCHANGED <<rb_failedAt, rb_err, rb_topupFailed>>
    /\ RbKeep

RbInit ==
    /\ rb_pc = "start"
    /\ rb_isCreation \in BOOLEAN
    /\ rb_send \in BOOLEAN
    /\ rb_aptPair \in BOOLEAN
    /\ rb_result = EmptyResult
    /\ rb_log = <<>>
    /\ rb_failedAt = "none"
    /\ rb_err = ""
    /\ rb_topupFailed = FALSE
    /\ rb_sendFailed = FALSE

RbNext ==
    \/ RbStart
    \/ RbRemovePayload
    \/ RbRemoveExec
    \/ RbRatio1
    \/ RbSwapPayload
    \/ RbSwapExec
    \/ RbSettle
    \/ RbRatio2
    \/ RbCreatePayload
    \/ RbCreateExec
    \/ RbDebugRatio
    \/ RbPostRatio
    \/ RbPositions
    \/ RbAddLiquidity
    \/ RbFinish
    \/ RbCatch

(***************************************************************************)
(* Properties of executeRebalancing                                        *)
(***************************************************************************)
Has(e) == \E i \in 1..Len(rb_log) : rb_log[i] = e

\* the place of the first occurrence of an event in the history
Idx(e) == CHOOSE i \in 1..Len(rb_log) : rb_log[i] = e /\ \A j \in 1..(i - 1) : rb_log[j] # e

Before(e, f) == Has(e) /\ Has(f) /\ Idx(e) < Idx(f)

\* C1: for an existing position, when the removal is confirmed and the swap then
\* fails (payload or execution), the result has success = false, exactly the
\* removal's hash, positionRemoved, no swap, no new position and an error.
C1_PartialFailureReported ==
    (/\ rb_pc = "returned"
     /\ ~rb_isCreation
     /\ rb_failedAt \in {"swapPayload", "swapExec"})
    => /\ rb_result.success = FALSE
       /\ rb_result.transactionHashes = <<"remove">>
       /\ rb_result.positionRemoved = TRUE
       /\ rb_result.swapExecuted = FALSE
       /\ rb_result.newPositionCreated = FALSE
       /\ rb_result.error # ""

\* C1 witness: a run that returned after a confirmed removal and a failed swap
C1_Witness ==
    /\ rb_pc = "returned"
    /\ ~rb_isCreation
    /\ Has("remove confirmed")
    /\ rb_failedAt = "swapExec"

\* C6: the swap is submitted only after the removal is confirmed; the balances
\* for the creation are read only after the settlement delay, which follows the
\* swap's confirmation; the creation is submitted only after that read.
C6_StepsSequential ==
    /\ (Has("swap submitted") /\ ~rb_isCreation) => Before("remove confirmed", "swap submitted")
    /\ Has("final read") => Before("delay", "final read")
    /\ (Has("final read") /\ Has("swap submitted")) => Before("swap confirmed", "delay")
    /\ Has("create submitted") => Before("final read", "create submitted")

\* C6 witness: a full run: removal, swap, delay, read, creation
C6_Witness ==
    /\ rb_pc = "returned"
    /\ rb_result.success
    /\ Has("remove confirmed")
    /\ Has("swap confirmed")
    /\ Has("create confirmed")

\* C22: once the create-position transaction is confirmed, the run returns
\* success = true, whatever the leftover read and the top-up did.
C22_TopUpNeverFailsRun ==
    (rb_pc = "returned" /\ Has("create confirmed")) => rb_result.success = TRUE

\* C22 witness: a run returned after a confirmed creation and a top-up step
\* that met a failure
C22_Witness ==
    /\ rb_pc = "returned"
    /\ Has("create confirmed")
    /\ rb_topupFailed

\* the hashes of the transactions the history shows as confirmed
ConfirmedHashes ==
    { h \in {"remove", "swap", "create", "top-up swap", "top-up add"} :
        \E i \in 1..Len(rb_log) : rb_log[i] = h \o " confirmed" }

\* the hashes the returned result lists
ReturnedHashes ==
    { rb_result.transactionHashes[i] : i \in 1..Len(rb_result.transactionHashes) }

\* C32: the transactionHashes of the returned result hold the hash of every
\* transaction confirmed during the run, the swap of the top-up step included
\* when the add-liquidity after it fails.
C32_EveryConfirmedHashReturned ==
    rb_pc = "returned" => ConfirmedHashes \subseteq ReturnedHashes

\* C32 counterexample: a run returned after the top-up's swap was confirmed and
\* its add-liquidity failed; the swap's hash is not in the result
TopUpSwapHashLost ==
    /\ rb_pc = "returned"
    /\ rb_topupFailed
    /\ "top-up swap" \in ConfirmedHashes
    /\ "top-up swap" \notin ReturnedHashes

\* the same for the run's own steps: removal, swap and creation are listed once
\* confirmed, whether the run succeeded or was caught
OwnStepHashesReturned ==
    rb_pc = "returned" =>
        (ConfirmedHashes \cap {"remove", "swap", "create"}) \subseteq ReturnedHashes

\* C33: the top-up step adds liquidity only to the position the run created,
\* never to another position of the pool, also when the list of positions lags
\* behind the creation or the pool holds several positions.
C33_TopUpOnlyCreatedPosition ==
    /\ ~Has("add liquidity to removed position")
    /\ ~Has("add liquidity to other position")

\* C33 counterexample: the list read after the creation does not show the new
\* position yet, and the top-up's add-liquidity is confirmed on an older one
TopUpOfOlderPosition ==
    /\ rb_pc = "returned"
    /\ Has("create confirmed")
    /\ Has("list lags")
    /\ Has("add liquidity to other position")
    /\ Has("top-up add confirmed")

\* when the list shows the created position, that one is topped up, however
\* many older positions the pool holds
TopUpOfCreatedWhenListed ==
    Has("list shows created position") =>
        /\ C33_TopUpOnlyCreatedPosition
        /\ rb_pc \in {"addLiquidity", "finish", "returned", "catch"} =>
              Has("add liquidity to created position")

\* C39: a creation request (objectId CREATE_NEW) never builds or submits a
\* remove-liquidity transaction and positionRemoved stays false; for an
\* existing position no swap and no creation is submitted unless the removal
\* was confirmed before.
C39_RemovalOnlyAndFirstForExisting ==
    /\ rb_isCreation =>
          /\ ~Has("remove payload asked")
          /\ ~Has("remove submitted")
          /\ ~Has("remove confirmed")
          /\ rb_result.positionRemoved = FALSE
    /\ ~rb_isCreation =>
          \A e \in {"swap submitted", "create submitted", "top-up swap confirmed", "top-up add confirmed"} :
              Has(e) => /\ Has("remove confirmed")
                        /\ Idx("remove confirmed") < Idx(e)
                        /\ rb_result.positionRemoved

\* C39 witness: a creation request that swapped and created a position
C39_Witness ==
    /\ rb_isCreation
    /\ rb_pc = "returned"
    /\ Has("swap confirmed")
    /\ Has("create confirmed")
    /\ rb_result.success

\* a run for an existing position whose removal was not confirmed: it ends
\* there
RemovalNotConfirmed ==
    /\ ~rb_isCreation
    /\ rb_pc = "returned"
    /\ Has("remove submitted")
    /\ ~Has("remove confirmed")
    /\ ~Has("swap submitted")
    /\ ~Has("create submitted")

\* C40: in every result executeRebalancing returns the flags agree with the
\* recorded work: success implies newPositionCreated and exactly one entry of
\* newPositions; swapExecuted implies an entry of swapDetails; and
\* transactionHashes holds a hash for each flag set among positionRemoved,
\* swapExecuted and newPositionCreated.
C40_FlagsAgreeWithRecords ==
    rb_pc = "returned" =>
        LET det == rb_result
            flags == { f \in {"remove", "swap", "create"} :
                         \/ f = "remove" /\ det.positionRemoved
                         \/ f = "swap" /\ det.swapExecuted
                         \/ f = "create" /\ det.newPositionCreated }
        IN  /\ det.success => (det.newPositionCreated /\ Len(det.newPositions) = 1)
            /\ det.swapExecuted => Len(det.swapDetails) >= 1
            /\ flags \subseteq ReturnedHashes
            /\ Len(det.transactionHashes) >= Cardinality(flags)

\* C40 witness: a failed run returned with the removal and the swap recorded
\* and no position created
C40_Witness ==
    /\ rb_pc = "returned"
    /\ ~rb_result.success
    /\ rb_result.positionRemoved
    /\ rb_result.swapExecuted
    /\ ~rb_result.newPositionCreated
    /\ rb_result.transactionHashes = <<"remove", "swap">>
    /\ rb_result.swapDetails = <<"swap">>

\* a successful run returned with all three flags set
AllFlagsSet ==
    /\ rb_pc = "returned"
    /\ rb_result.success
    /\ rb_result.positionRemoved
    /\ rb_result.swapExecuted
    /\ rb_result.newPositionCreated
    /\ Len(rb_result.newPositions) = 1
    /\ Len(rb_result.transactionHashes) >= 3

(***************************************************************************)
(* What executeRebalancing returns, as seen by its callers                 *)
(***************************************************************************)
\* the results executeRebalancing can return (part_006:66-465), built from the
\* same record updates as the run above
RebalancingResults(isCreation, aptPair) ==
    LET removed  == IF isCreation THEN EmptyResult ELSE Removed(EmptyResult)
        early    == { CatchResult(EmptyResult, ErrorOf(s)) :
                         s \in {"getAccount"} \cup
                               (IF isCreation THEN {} ELSE {"removePayload", "removeExec"}) }
        mid      == { CatchResult(removed, ErrorOf(s)) : s \in {"ratio", "swapPayload", "swapExec"} }
        balanced == { removed, Swapped(removed) }
        lateAt   == {"final ratio", "createPayload", "createExec", "insufficient balance"} \cup
                    (IF aptPair THEN {"safety check"} ELSE {})
        late     == { CatchResult(r, ErrorOf(s)) : r \in balanced, s \in lateAt }
        created  == { Listed(CreatedTx(r)) : r \in balanced }
        done     == { Succeeded(r) : r \in created } \cup
                    { Succeeded(ToppedUp(r, a)) : r \in created, a \in AddLiquidityResults }
    IN  early \cup mid \cup late \cup done

\* every result the run above returns is one of RebalancingResults
RbResultIsListed ==
    rb_pc = "returned" => rb_result \in RebalancingResults(rb_isCreation, rb_aptPair)

\* how often an event is in the history of the run
Count(e) == Cardinality({ i \in 1..Len(rb_log) : rb_log[i] = e })

\* C29: within one run at most one create-position transaction is submitted;
\* when getCreatePoolPayload throws none is, when the creation fails the run
\* returns a failure, and the balances are read for diagnostics at most once
\* and only after such a failure.
C29_OneCreationAttempt ==
    /\ Count("create submitted") <= 1
    /\ Count("diagnostic read") <= 1
    /\ rb_failedAt = "createPayload" => ~Has("create submitted")
    /\ Has("diagnostic read") => rb_failedAt \in {"createPayload", "createExec"}
    /\ (rb_pc = "returned" /\ rb_failedAt \in {"createPayload", "createExec"}) =>
           /\ rb_result.success = FALSE
           /\ ~Has("create confirmed")

\* a run returned after its one create transaction was submitted and failed
\* for insufficient balance, which the diagnostic read followed
C29_Witness ==
    /\ rb_pc = "returned"
    /\ rb_failedAt = "createExec"
    /\ Count("create submitted") = 1
    /\ Count("diagnostic read") = 1
    /\ rb_result.success = FALSE

\* C24: a rate-limit failure ('Too many subrequests') met during a scheduled
\* cycle, where executeRebalancing runs with sendProgressUpdates set, produces
\* no failure message to the user.
C24_RateLimitIsSilent ==
    ~(rb_send /\ Has("rate limit") /\ Has("failure message"))

\* C23: the transactions a run submits and the result it returns do not depend
\* on what the notification sends do: no run is diverted to its catch block by
\* a progress message, none leaves by an exception of the failure message, and
\* a run whose messages were not delivered returns one of the results of
\* executeRebalancing.
C23_SendsNeverSteer ==
    /\ rb_failedAt # "progress message"
    /\ rb_pc # "thrown"
    /\ (rb_pc = "returned" /\ rb_sendFailed) =>
           rb_result \in RebalancingResults(rb_isCreation, rb_aptPair)

\* C23 witness: a run with undelivered messages went through removal, swap and
\* creation and returned success
C23_Witness ==
    /\ rb_pc = "returned"
    /\ rb_sendFailed
    /\ rb_result.success
    /\ Has("remove confirmed")
    /\ Has("swap confirmed")
    /\ Has("create confirmed")

(***************************************************************************)
(* checkRebalancingNeeded and executeRebalancingFlow                       *)
(***************************************************************************)
\* part_006:607  objectId: 'CREATE_NEW', the entry that asks for a creation
CREATE_NEW == 0

\* part_007:2255-2268: the result the flow starts with
EmptyFlowResult ==
    [success |-> FALSE, message |-> "",
     processedPositions |-> 0, successfulRebalances |-> 0, failedRebalances |-> 0,
     additionalLiquidityOperations |-> 0,
     transactionHashes |-> <<>>, swapDetails |-> <<>>, newPositions |-> <<>>,
     errors |-> <<>>]

\* ids of the positions (their index in the list getAllPositions returns)
PositionIds == [i \in 1..Len(positions) |-> i]

InPools(ps) == SelectSeq(PositionIds, LAMBDA i : positions[i].pool \in ps)

\* filterInactivePositions (part_007:370): the positions that need rebalancing
filterInactivePositions(ids) == SelectSeq(ids, LAMBDA i : positions[i].flagged)

\* checkRebalancingNeeded (part_006:474-684); `read` is what getAccount and
\* getAllPositions do, `canCreate` whether the balances read allow a creation
checkRebalancingNeeded(read, specificPoolId, forceAllPositions, canCreate) ==
    IF read = "throws"
       THEN [success |-> FALSE, inactivePositions |-> <<>>]
       ELSE LET managedPoolIds == IF specificPoolId # "" THEN {specificPoolId} ELSE EnabledPools
                managedPositions == InPools(managedPoolIds)
                positionsToRebalance == IF forceAllPositions THEN managedPositions
                                        ELSE filterInactivePositions(managedPositions)
                isManualCommand == specificPoolId # "" /\ ~forceAllPositions
            IN  [success |-> TRUE,
                 inactivePositions |->
                    IF positionsToRebalance # <<>> THEN positionsToRebalance
                    ELSE IF isManualCommand /\ managedPositions = <<>> /\ canCreate
                            THEN <<CREATE_NEW>>
                            ELSE <<>>]

Reads == {"ok", "throws"}

\* part_006:588  at least 0.01 of either token, in hundredths of a token
MINIMUM_BALANCE == 1

\* part_006:588  hasMinimumBalance = availableToken1 >= 0.01 || token2Balance >= 0.01
hasMinimumBalance(w) ==
    w.availableToken1 >= MINIMUM_BALANCE \/ w.token2Balance >= MINIMUM_BALANCE

\* what generateRatioResponse does for the balance check of lines 577-661
RatioReads == {"data", "null", "throws"}

\* part_006:581-590: a creation is possible when the ratio read gave data and the
\* balances reach the minimum
CanCreate(ratio) == ratio = "data" /\ hasMinimumBalance(wallet)

\* the balances an account can hold, in hundredths of a token
Wallets ==
    { [availableToken1 |-> 0, token2Balance |-> 0],
      [availableToken1 |-> MINIMUM_BALANCE, token2Balance |-> 0],
      [availableToken1 |-> 0, token2Balance |-> MINIMUM_BALANCE] }

\* a transaction hash and a swap, named by the position or pool they belong to
TxOf(id, pool, tx) == [id |-> id, pool |-> pool, tx |-> tx]

Tagged(id, pool, txs) == [k \in 1..Len(txs) |-> TxOf(id, pool, txs[k])]

Range(f) == { f[k] : k \in DOMAIN f }

\* part_007:2927-2933: the outer catch of the flow
OuterCatch(res, err) ==
    [res EXCEPT !.success = FALSE,
                !.message = "Rebalancing flow failed",
                !.errors = Append(@, err)]

\* A mutant of MissingToProcess: every position-less pool is processed.
MissingToProcessAll(missing) == missing

\* part_007:2521-2522: maxPoolsPerExecution = 1, missingPositionPools.slice(0, 1)
MissingToProcess(missing) == SubSeq(missing, 1, IF Len(missing) < 1 THEN Len(missing) ELSE 1)

\* part_007:2503-2515: the enabled pools in which the account has no position
MissingPositionPools ==
    SelectSeq(DEFAULT_POOLS_TO_MANAGE,
              LAMBDA p : poolEnabled[p] /\ InPools({p}) = <<>>)

FlKeep == UNCHANGED <<clock, poolEnabled, txVars, wkVars, entry, rbVars, positions, wallet, fl_poolId, clVars, rtVars, cyVars, tkVars, fbVars>>

\* the flow returns `res`
FlReturn(res) == fl_result' = res /\ fl_pc' = "returned"

\* lines 2270-2282: the imports and getAccount
FlStart ==
    /\ entry = "executeRebalancingFlow"
    /\ fl_pc = "start"
    /\ \E accountOk \in BOOLEAN :
          IF accountOk
             THEN fl_pc' = "check" /\ UNCHANGED <<fl_result, fl_failures>>
             ELSE /\ FlReturn(OuterCatch(fl_result, ErrorOf("getAccount")))
                  /\ fl_failures' = fl_failures \cup {"getAccount"}
    /\ UNCHANGED <<fl_list, fl_i, fl_missing, fl_started, fl_chain, fl_swaps>>
    /\ FlKeep

\* lines 2287-2371: specific pool mode, up to the loop
FlCheckSpecific ==
    /\ fl_pc = "check"
    /\ fl_poolId # ""
    /\ \E read1 \in Reads, read2 \in Reads, read3 \in Reads,
          ratio1 \in RatioReads, ratio3 \in RatioReads :
          LET rebalanceCheckResult ==
                  checkRebalancingNeeded(read1, fl_poolId, TRUE, CanCreate(ratio1))
              poolPositions == InPools({fl_poolId})
              secondCheckResult ==
                  checkRebalancingNeeded(read3, fl_poolId, TRUE, CanCreate(ratio3))
          IN  CASE ~rebalanceCheckResult.success ->
                     /\ FlReturn([fl_result EXCEPT !.message = "Portfolio Check Failed"])
                     /\ fl_failures' = fl_failures \cup {"check"}
                     /\ UNCHANGED fl_list
                [] rebalanceCheckResult.inactivePositions # <<>> ->
                     /\ fl_list' = rebalanceCheckResult.inactivePositions
                     /\ fl_pc' = "loop"
                     /\ UNCHANGED <<fl_result, fl_failures>>
                [] read2 = "throws" ->
                     /\ FlReturn(OuterCatch(fl_result, ErrorOf("getAllPositions")))
                     /\ fl_failures' = fl_failures \cup {"read"}
                     /\ UNCHANGED fl_list
                [] poolPositions # <<>> ->
                     /\ fl_list' = poolPositions
                     /\ fl_pc' = "loop"
                     /\ UNCHANGED <<fl_result, fl_failures>>
                [] secondCheckResult.inactivePositions = <<>> ->
                     /\ FlReturn([fl_result EXCEPT !.message = "Cannot Create Position"])
                     /\ fl_failures' = fl_failures \cup
                            (IF secondCheckResult.success THEN {} ELSE {"check"})
                     /\ UNCHANGED fl_list
                [] OTHER ->
                     /\ fl_list' = rebalanceCheckResult.inactivePositions
                     /\ fl_pc' = "loop"
                     /\ UNCHANGED <<fl_result, fl_failures>>
    /\ UNCHANGED <<fl_i, fl_missing, fl_started, fl_chain, fl_swaps>>
    /\ FlKeep

\* lines 2426-2522 and 2645-2650: automatic mode, up to the work to do. The
\* health check of lines 2433-2475 only logs and notifies.
FlCheckAutomatic ==
    /\ fl_pc = "check"
    /\ fl_poolId = ""
    /\ \E read1 \in Reads, read2 \in Reads :
          LET rebalanceCheckResult == checkRebalancingNeeded(read1, "", FALSE, FALSE)
          IN  CASE ~rebalanceCheckResult.success ->
                     /\ FlReturn([fl_result EXCEPT
                                    !.message = "Portfolio Check Failed",
                                    !.errors = Append(@, "Rebalancing check failed")])
                     /\ fl_failures' = fl_failures \cup {"check"}
                     /\ UNCHANGED <<fl_list, fl_missing>>
                [] rebalanceCheckResult.inactivePositions # <<>> ->
                     /\ fl_list' = rebalanceCheckResult.inactivePositions
                     /\ fl_pc' = "begin"
                     /\ UNCHANGED <<fl_result, fl_failures, fl_missing>>
                [] read2 = "throws" ->
                     /\ FlReturn(OuterCatch(fl_result, ErrorOf("getAllPositions")))
                     /\ fl_failures' = fl_failures \cup {"read"}
                     /\ UNCHANGED <<fl_list, fl_missing>>
                [] MissingPositionPools # <<>> ->
                     /\ fl_missing' = MissingToProcess(MissingPositionPools)
                     /\ fl_pc' = "missing"
                     /\ UNCHANGED <<fl_result, fl_failures, fl_list>>
                [] OTHER ->
                     /\ FlReturn([fl_result EXCEPT !.success = TRUE,
                                                   !.message = "No rebalancing needed"])
                     /\ UNCHANGED <<fl_failures, fl_list, fl_missing>>
    /\ UNCHANGED <<fl_i, fl_started, fl_chain, fl_swaps>>
    /\ FlKeep

\* lines 2529-2644: one position-less pool: ratio read, balance check, the
\* pre-creation swap when one is recommended, the creation
FlMissingPool ==
    /\ fl_pc = "missing"
    /\ fl_missing # <<>>
    /\ \E ratio \in {"null", "low", "swap", "no swap"}, accountOk \in BOOLEAN,
          swapPayloadOk \in BOOLEAN, swap \in ExecOutcomes,
          createPayloadOk \in BOOLEAN, create \in ExecOutcomes :
          LET missingPool == Head(fl_missing)
              caught(res, step) ==
                  [res EXCEPT !.failedRebalances = @ + 1,
                              !.processedPositions = @ + 1,
                              !.errors = Append(@, missingPool \o ": " \o ErrorOf(step))]
              swapDone == /\ ratio = "swap" /\ accountOk /\ swapPayloadOk /\ Returns(swap)
              swapHash == TxOf(CREATE_NEW, missingPool, "swap")
              createHash == TxOf(CREATE_NEW, missingPool, "create")
              afterSwap == IF swapDone
                              THEN [fl_result EXCEPT !.transactionHashes = Append(@, swapHash)]
                              ELSE fl_result
              createDone == /\ ratio \in {"swap", "no swap"} /\ accountOk
                            /\ (ratio = "swap" => swapDone)
                            /\ createPayloadOk /\ Returns(create)
          IN  /\ fl_result' =
                    CASE ratio = "null" ->
                           [fl_result EXCEPT
                              !.failedRebalances = @ + 1,
                              !.errors = Append(@, missingPool \o ": Cannot get ratio data")]
                      [] ratio = "low" ->
                           [fl_result EXCEPT
                              !.errors = Append(@, missingPool \o ": Insufficient balance to create position")]
                      [] ~accountOk -> caught(fl_result, "getAccount")
                      [] ratio = "swap" /\ ~swapPayloadOk -> caught(fl_result, "swapPayload")
                      [] ratio = "swap" /\ ~Returns(swap) -> caught(fl_result, "swapExec")
                      [] ~createPayloadOk -> caught(afterSwap, "createPayload")
                      [] ~Returns(create) -> caught(afterSwap, "createExec")
                      [] OTHER ->
                           [afterSwap EXCEPT
                              !.transactionHashes = Append(@, createHash),
                              !.successfulRebalances = @ + 1,
                              !.processedPositions = @ + 1,
                              !.newPositions = Append(@, missingPool)]
              /\ fl_started' = Append(fl_started,
                                      [kind |-> "pool creation", id |-> CREATE_NEW,
                                       pool |-> missingPool, ok |-> createDone])
              /\ fl_chain' = fl_chain \cup (IF swapDone THEN {swapHash} ELSE {})
                                      \cup (IF createDone THEN {createHash} ELSE {})
              /\ fl_swaps' = fl_swaps \cup (IF swapDone THEN {swapHash} ELSE {})
              /\ fl_failures' = fl_failures \cup (IF createDone THEN {} ELSE {"pool creation"})
    /\ fl_missing' = Tail(fl_missing)
    /\ fl_pc' = IF Tail(fl_missing) = <<>> THEN "begin" ELSE "missing"
    /\ UNCHANGED <<fl_list, fl_i>>
    /\ FlKeep

\* lines 2653-2674: the start message, and processedPositions is set to the
\* number of positions to rebalance
FlBegin ==
    /\ fl_pc = "begin"
    /\ fl_result' = [fl_result EXCEPT !.processedPositions = Len(fl_list)]
    /\ fl_pc' = "loop"
    /\ UNCHANGED <<fl_list, fl_i, fl_missing, fl_started, fl_chain, fl_swaps, fl_failures>>
    /\ FlKeep

\* lines 2400-2416 and 2692-2708: what the flow keeps of one executeRebalancing
\* result; `label` is the text the error is listed under
Accumulate(res, id, pool, r, label) ==
    IF r.success
       THEN [res EXCEPT
               !.successfulRebalances = @ + 1,
               !.transactionHashes = @ \o Tagged(id, pool, r.transactionHashes),
               !.swapDetails = @ \o Tagged(id, pool, r.swapDetails),
               !.newPositions = @ \o [k \in 1..Len(r.newPositions) |-> pool],
               !.additionalLiquidityOperations =
                    IF r.additionalLiquidityAdded THEN @ + 1 ELSE @]
       ELSE [res EXCEPT
               !.failedRebalances = @ + 1,
               !.errors = Append(@, label \o (IF r.error # "" THEN r.error ELSE "Unknown error"))]

\* A mutant of AfterPosition: the loop is left at the first failed position.
AfterPositionAbort(i, r) == IF r.success THEN i + 1 ELSE Len(fl_list) + 1

\* the `for ... of` loops of lines 2374 and 2676: whatever the result of the
\* position, the next one is taken
AfterPosition(i, r) == i + 1

\* lines 2374-2424 (specific) and 2676-2716 (automatic): one iteration of the
\* loop, a whole executeRebalancing call
FlProcessPosition ==
    /\ fl_pc = "loop"
    /\ fl_i <= Len(fl_list)
    /\ LET id == fl_list[fl_i]
           isCreatingNew == id = CREATE_NEW
           pool == IF isCreatingNew THEN fl_poolId ELSE positions[id].pool
       IN  \E r \in RebalancingResults(isCreatingNew, pool \in AptStkAptPools) :
              /\ fl_result' =
                    IF fl_poolId # ""
                       THEN Accumulate([fl_result EXCEPT !.processedPositions = @ + 1],
                                       id, pool, r, "")
                       ELSE Accumulate(fl_result, id, pool, r, pool \o ": ")
              /\ fl_started' = Append(fl_started,
                                      [kind |-> IF isCreatingNew THEN "creation" ELSE "rebalancing",
                                       id |-> id, pool |-> pool, ok |-> r.success])
              /\ fl_chain' = fl_chain \cup Range(Tagged(id, pool, r.transactionHashes))
              /\ fl_swaps' = fl_swaps \cup Range(Tagged(id, pool, r.swapDetails))
              /\ fl_failures' = fl_failures \cup (IF r.success THEN {} ELSE {"position"})
              /\ fl_i' = AfterPosition(fl_i, r)
    /\ fl_pc' = "loop"
    /\ UNCHANGED <<fl_list, fl_missing>>
    /\ FlKeep

\* lines 2893-2922: the overall outcome and its message
Outcome(res, specific) ==
    LET ok == res.processedPositions > 0 /\ res.successfulRebalances > 0
    IN  [res EXCEPT
           !.success = ok,
           !.message = CASE ok -> "Rebalancing completed"
                         [] res.processedPositions = 0 /\ specific -> "No Action Taken"
                         [] res.processedPositions = 0 -> "No Rebalancing Actions Needed"
                         [] OTHER -> "Rebalancing failed"]

\* lines 2719-2925: the summary and completion messages (a failed send is only
\* logged), the outcome, return
FlFinal ==
    /\ fl_pc = "loop"
    /\ fl_i > Len(fl_list)
    /\ FlReturn(Outcome(fl_result, fl_poolId # ""))
    /\ UNCHANGED <<fl_list, fl_i, fl_missing, fl_started, fl_chain, fl_swaps, fl_failures>>
    /\ FlKeep

\* the positions the account can hold, listed pool by pool
PositionLists ==
    LET rank(x) == (IF x.pool = DEFAULT_POOLS_TO_MANAGE[1] THEN 0 ELSE 2)
                   + (IF x.flagged THEN 1 ELSE 0)
        kinds == [pool : Pools, flagged : BOOLEAN]
    IN  UNION { { ps \in [1..n -> kinds] :
                     \A k \in 1..(n - 1) : rank(ps[k]) <= rank(ps[k + 1]) } :
                n \in 0..MaxPositions }

\* the flow is called with or without a pool id (worker.ts:328 calls it without)
FlInit ==
    /\ positions \in PositionLists
    /\ wallet \in Wallets
    /\ fl_pc = "start"
    /\ fl_poolId \in {""} \cup Pools
    /\ fl_list = <<>>
    /\ fl_i = 1
    /\ fl_missing = <<>>
    /\ fl_result = EmptyFlowResult
    /\ fl_started = <<>>
    /\ fl_chain = {}
    /\ fl_swaps = {}
    /\ fl_failures = {}

FlNext ==
    \/ FlStart
    \/ FlCheckSpecific
    \/ FlCheckAutomatic
    \/ FlMissingPool
    \/ FlBegin
    \/ FlProcessPosition
    \/ FlFinal

(***************************************************************************)
(* Properties of the orchestrator                                          *)
(***************************************************************************)
\* worker.ts:314  operationLimit.maxRebalancingOperations
maxRebalancingOperations == 2

\* the workflows of a kind the flow has started
StartedOf(kind) == { k \in 1..Len(fl_started) : fl_started[k].kind = kind }

\* C2: when executeRebalancingFlow returns, its result lists the hash of every
\* transaction confirmed during the cycle and every swap executed, those of the
\* positions whose rebalancing failed included.
C2_FlowListsAllProgress ==
    fl_pc = "returned"
    => /\ fl_chain \subseteq Range(fl_result.transactionHashes)
       /\ fl_swaps \subseteq Range(fl_result.swapDetails)

\* C7: executeRebalancing and executeRebalancingFlow never throw, and a call in
\* which a sub-step failed returns success = false with the failure in the error
\* field (executeRebalancing) or the error list (executeRebalancingFlow).
C7_FailuresReturnFailure ==
    /\ rb_pc # "thrown"
    /\ fl_pc # "thrown"
    /\ (rb_pc = "returned" /\ (rb_failedAt # "none" \/ rb_topupFailed))
          => (~rb_result.success /\ rb_result.error # "")
    /\ (fl_pc = "returned" /\ fl_failures # {})
          => (~fl_result.success /\ fl_result.errors # <<>>)

\* C11: a specific-pool cycle for a pool in which the account has no position,
\* with a balance of at least the minimum on one side and every read succeeding,
\* runs a position-creation workflow for that pool.
C11_ManualCreationRuns ==
    (/\ fl_pc = "returned"
     /\ fl_poolId # ""
     /\ InPools({fl_poolId}) = <<>>
     /\ hasMinimumBalance(wallet)
     /\ fl_failures = {})
    => \E k \in StartedOf("creation") : fl_started[k].pool = fl_poolId

\* C9: in an automatic cycle the flow starts at most maxRebalancingOperations
\* position rebalancing workflows.
C9_RebalancingsCapped ==
    fl_poolId = "" => Cardinality(StartedOf("rebalancing")) <= maxRebalancingOperations

\* C10: in an automatic cycle at most one creation is attempted for the enabled
\* pools without a position, and no transaction is made for any other pool
\* without a position.
C10_OneCreationPerCycle ==
    (entry = "executeRebalancingFlow" /\ fl_poolId = "")
    => /\ Cardinality(StartedOf("pool creation")) <= 1
       /\ \A p \in Pools :
             (/\ InPools({p}) = <<>>
              /\ \A k \in StartedOf("pool creation") : fl_started[k].pool # p)
             => \A h \in fl_chain : h.pool # p

\* C10 witness: a cycle that found two enabled pools without a position, created
\* a position in one and returned
C10_Witness ==
    /\ fl_pc = "returned"
    /\ fl_poolId = ""
    /\ Len(MissingPositionPools) = 2
    /\ \E k \in StartedOf("pool creation") :
          TxOf(CREATE_NEW, fl_started[k].pool, "create") \in fl_chain

C13_BatchContinuesAfterFailure ==
    (fl_pc = "returned" /\ fl_list # <<>>)
    => /\ Len(fl_started) = Len(fl_list)
       /\ \A k \in 1..Len(fl_list) : fl_started[k].id = fl_list[k]
       /\ fl_result.failedRebalances =
             Cardinality({k \in 1..Len(fl_started) : ~fl_started[k].ok})
       /\ fl_result.successfulRebalances =
             Cardinality({k \in 1..Len(fl_started) : fl_started[k].ok})

\* C13 witness: a cycle whose first position failed and whose last succeeded
C13_Witness ==
    /\ fl_pc = "returned"
    /\ Len(fl_list) >= 2
    /\ Len(fl_started) = Len(fl_list)
    /\ ~fl_started[1].ok
    /\ fl_started[Len(fl_started)].ok

\* C14: a cycle in which at least one position was rebalanced or created
\* successfully returns success = true with processedPositions >= 1.
C14_WorkDoneIsReported ==
    (fl_pc = "returned" /\ \E k \in 1..Len(fl_started) : fl_started[k].ok)
    => (fl_result.success /\ fl_result.processedPositions >= 1)

\* C15: in every result the flow returns, processedPositions is the sum of
\* successfulRebalances and failedRebalances.
C15_CountsConsistent ==
    fl_pc = "returned"
    => fl_result.processedPositions =
          fl_result.successfulRebalances + fl_result.failedRebalances

(***************************************************************************)
(* Classification of positions: filterInactivePositions and                *)
(* filterActivePositions (part_007:370-475)                                *)
(***************************************************************************)
\* part_007:434  the share, in percent, below which a custom-range position is flagged
REBALANCE_THRESHOLD == 10

\* A mutant of isActive: a tick on a bound counts as inside.
isActiveInclusive(tickLower, currentTick, tickUpper) ==
    tickLower <= currentTick /\ currentTick <= tickUpper

\* lines 417, 454, 472: isActive = tickLower < currentTick && currentTick < tickUpper
isActive(tickLower, currentTick, tickUpper) ==
    tickLower < currentTick /\ currentTick < tickUpper

\* lines 413-414: a share in percent, (value / total) * 100, or 0 for an empty
\* position; kept as a fraction (the rounding of the floating-point division
\* is not modelled)
Pct(value, total) ==
    IF total > 0 THEN [num |-> 100 * value, den |-> total] ELSE [num |-> 0, den |-> 1]

\* A mutant of PctIsZero: a share below the threshold counts as zero.
PctIsZeroBelowThreshold(p) == p.num < REBALANCE_THRESHOLD * p.den

\* line 428: pct === 0
PctIsZero(p) == p.num = 0

\* A mutant of PctBelow: the comparison is not strict.
PctAtOrBelow(p, n) == p.num <= n * p.den

\* line 434: pct < 10
PctBelow(p, n) == p.num < n * p.den

\* lines 409-438: the decision for a position whose amounts were read
needsRebalancing(pos) ==
    LET totalValueInToken2 == pos.valueToken1InToken2 + pos.valueToken2InToken2
        pctToken1 == Pct(pos.valueToken1InToken2, totalValueInToken2)
        pctToken2 == Pct(pos.valueToken2InToken2, totalValueInToken2)
        active == isActive(pos.tickLower, pos.currentTick, pos.tickUpper)
    IN  IF pos.rangePercent = None
           THEN ~active \/ PctIsZero(pctToken1) \/ PctIsZero(pctToken2)
           ELSE PctBelow(pctToken1, REBALANCE_THRESHOLD) \/ PctBelow(pctToken2, REBALANCE_THRESHOLD)

\* what the analysis of one position can meet: nothing, a failed
\* fetchTokensAmountByPositionId (lines 400-407), or another error (lines 451-459)
AnalysisOutcomes == {"ok", "amounts fail", "analysis fails"}

\* lines 381-460: whether the position is pushed to positionsToRebalance
Pushed(pos, read) ==
    CASE read = "amounts fail" -> FALSE
      [] read = "analysis fails" -> ~isActive(pos.tickLower, pos.currentTick, pos.tickUpper)
      [] OTHER -> needsRebalancing(pos)

Ticks == 0..MaxTick

\* the values of the two sides of a position, in units of token2
Values == {0, 1, 9, 19}

\* config/pools.ts: rangePercent is null (tightest range) or a percentage
RangePercents == {None, 5}

PositionInputs ==
    { p \in [tickLower : Ticks, tickUpper : Ticks, currentTick : Ticks,
             valueToken1InToken2 : Values, valueToken2InToken2 : Values,
             rangePercent : RangePercents] : p.tickLower < p.tickUpper }

NoPosition ==
    [tickLower |-> 0, tickUpper |-> 0, currentTick |-> 0,
     valueToken1InToken2 |-> 0, valueToken2InToken2 |-> 0, rangePercent |-> None]

Handled(fn, pos, read, result) ==
    [fn |-> fn, pos |-> pos, read |-> read,
     active |-> isActive(pos.tickLower, pos.currentTick, pos.tickUpper),
     result |-> result]

ClKeep == UNCHANGED <<clock, poolEnabled, txVars, wkVars, entry, rbVars, flVars, cl_len, rtVars, cyVars, tkVars, fbVars>>

\* lines 381-460: one iteration of the loop of filterInactivePositions
ClAnalyse ==
    /\ cl_pc = "loop"
    /\ cl_i <= cl_len
    /\ \E pos \in PositionInputs, read \in AnalysisOutcomes :
          /\ cl_cur' = Handled("filterInactivePositions", pos, read, Pushed(pos, read))
          /\ cl_reads' = Append(cl_reads, read)
          /\ cl_flagged' = IF Pushed(pos, read) THEN Append(cl_flagged, cl_i) ELSE cl_flagged
    /\ cl_i' = cl_i + 1
    /\ UNCHANGED cl_pc
    /\ ClKeep

\* line 462: return positionsToRebalance
ClReturn ==
    /\ cl_pc = "loop"
    /\ cl_i > cl_len
    /\ cl_pc' = "returned"
    /\ UNCHANGED <<cl_i, cl_cur, cl_reads, cl_flagged>>
    /\ ClKeep

\* filterActivePositions reads the ticks only: the other fields are left empty
TickInputs ==
    { p \in PositionInputs :
         /\ p.valueToken1InToken2 = 0 /\ p.valueToken2InToken2 = 0
         /\ p.rangePercent = None }

\* lines 468-475: filterActivePositions applied to one position
ClFilterActive ==
    /\ cl_pc = "returned"
    /\ \E pos \in TickInputs :
          cl_cur' = Handled("filterActivePositions", pos, "ok",
                            isActive(pos.tickLower, pos.currentTick, pos.tickUpper))
    /\ UNCHANGED <<cl_pc, cl_i, cl_reads, cl_flagged>>
    /\ ClKeep

ClRest ==
    /\ cl_pc = "loop"
    /\ cl_len = 0
    /\ cl_i = 1
    /\ cl_cur = Handled("none", NoPosition, "ok", FALSE)
    /\ cl_reads = <<>>
    /\ cl_flagged = <<>>

ClInit ==
    /\ cl_pc = "loop"
    /\ cl_len \in 0..MaxBatch
    /\ cl_i = 1
    /\ cl_cur = Handled("none", NoPosition, "ok", FALSE)
    /\ cl_reads = <<>>
    /\ cl_flagged = <<>>

ClNext ==
    \/ ClAnalyse
    \/ ClReturn
    \/ ClFilterActive

(***************************************************************************)
(* Properties of the classification                                        *)
(***************************************************************************)
\* the current tick lies strictly between the bounds
StrictlyInside(pos) == pos.currentTick \in (pos.tickLower + 1)..(pos.tickUpper - 1)

\* the position was analysed by filterInactivePositions with its amounts read
Analysed == cl_cur.fn = "filterInactivePositions" /\ cl_cur.read = "ok"

\* C16: a position is classified active exactly when its current tick lies
\* strictly between tickLower and tickUpper (a tick on a bound is inactive), in
\* filterInactivePositions and in filterActivePositions alike.
C16_ActiveIffStrictlyInside ==
    cl_cur.fn # "none"
    => /\ cl_cur.active <=> StrictlyInside(cl_cur.pos)
       /\ cl_cur.fn = "filterActivePositions" => (cl_cur.result <=> StrictlyInside(cl_cur.pos))
       /\ (Analysed /\ cl_cur.pos.rangePercent = None
           /\ cl_cur.pos.valueToken1InToken2 > 0 /\ cl_cur.pos.valueToken2InToken2 > 0)
             => (cl_cur.result <=> ~StrictlyInside(cl_cur.pos))

\* C16 witness: a position whose current tick equals a bound was classified inactive
C16_Witness ==
    /\ cl_cur.fn # "none"
    /\ cl_cur.pos.currentTick \in {cl_cur.pos.tickLower, cl_cur.pos.tickUpper}
    /\ ~cl_cur.active

\* C17: with rangePercent = null a position whose amounts were read is flagged
\* exactly when it is inactive or one of its two sides has no value (share 0).
C17_TightestRangeTrigger ==
    (Analysed /\ cl_cur.pos.rangePercent = None)
    => (cl_cur.result <=>
          \/ ~StrictlyInside(cl_cur.pos)
          \/ cl_cur.pos.valueToken1InToken2 = 0
          \/ cl_cur.pos.valueToken2InToken2 = 0)

\* C17 witness: an active position with shares 5% / 95% was analysed and not flagged
C17_Witness ==
    /\ Analysed
    /\ cl_cur.pos.rangePercent = None
    /\ StrictlyInside(cl_cur.pos)
    /\ cl_cur.pos.valueToken1InToken2 = 1
    /\ cl_cur.pos.valueToken2InToken2 = 19
    /\ ~cl_cur.result

\* C18: with a numeric rangePercent a position whose amounts were read is
\* flagged exactly when the share of one side is strictly below 10% (the shares
\* of an empty position are 0); a share of exactly 10% is not flagged.
C18_CustomRangeTrigger ==
    (Analysed /\ cl_cur.pos.rangePercent # None)
    => LET v1 == cl_cur.pos.valueToken1InToken2
           v2 == cl_cur.pos.valueToken2InToken2
       IN  cl_cur.result <=>
              \/ v1 + v2 = 0
              \/ 10 * v1 < v1 + v2
              \/ 10 * v2 < v1 + v2

\* C18 witness: a position with shares of exactly 10% / 90% was analysed and not flagged
C18_Witness ==
    /\ Analysed
    /\ cl_cur.pos.rangePercent # None
    /\ cl_cur.pos.valueToken1InToken2 = 1
    /\ cl_cur.pos.valueToken2InToken2 = 9
    /\ ~cl_cur.result

\* C19: when the analysis of a position fails (the read of its amounts or any
\* other part), the position is flagged if it is inactive, and the positions
\* after it are still analysed.
C19_ReadFailureFallsBack ==
    /\ (cl_cur.fn = "filterInactivePositions" /\ cl_cur.read # "ok" /\ ~StrictlyInside(cl_cur.pos))
          => cl_cur.result
    /\ cl_pc = "returned" => Len(cl_reads) = cl_len

(***************************************************************************)
(* Amounts: calculateOptimalRatioData, the swap of executeRebalancing and  *)
(* getCreatePoolPayload.  Amounts are raw integer units, RawPerToken of    *)
(* them to one token; both tokens have the same number of decimals.  The   *)
(* arithmetic is exact: the rounding of floating point is not modelled.    *)
(***************************************************************************)
\* 10 ** token1Decimals, 10 ** token2Decimals
RawPerToken == 10000

\* part_007 line 695: 1.0
gasReserveAPT == 1 * RawPerToken

\* part_007 line 888: 0.01
minSwapThreshold == RawPerToken \div 100

\* part_007 line 898, part_006 line 231: 0.01
minimumBalanceThreshold == RawPerToken \div 100

\* part_005 line 60: 0.001
minimumForPosition == RawPerToken \div 1000

Abs(x) == IF x < 0 THEN 0 - x ELSE x

Max(a, b) == IF a >= b THEN a ELSE b

\* the pools by the symbols of their two tokens, the native gas token on
\* either side or on none
TokenPairs ==
    { <<"APT", "USDC">>, <<"USDC", "APT">>, <<"APT", "stkAPT">>,
      <<"stkAPT", "APT">>, <<"USDC", "USDT">> }

MaxTokens == 3

\* wallet balances: empty, dust, a little, whole and half tokens, and 5.0
Balances ==
    {0, 5, 50, RawPerToken \div 2, 5 * RawPerToken}
      \cup { t * RawPerToken + d : t \in 1..MaxTokens, d \in {0, RawPerToken \div 2} }

\* token2 per token1 on the market
MarketPrices == {1, 2}

\* token2 needed per token1 for the tick range of the new position
LiquidityRatios == {0, 1, 2}

isAPTstkAPTPool(pool) ==
    \/ pool[1] = "APT" /\ pool[2] = "stkAPT"
    \/ pool[1] = "stkAPT" /\ pool[2] = "APT"

\* a variant that blocks as soon as one balance is near zero
EitherNearZero(avail, token2Balance) ==
    \/ ~(avail >= minimumBalanceThreshold)
    \/ ~(token2Balance >= minimumBalanceThreshold)

\* part_007 lines 898-905, part_006 lines 231-238: !hasToken1 && !hasToken2
BothNearZero(avail, token2Balance) ==
    /\ ~(avail >= minimumBalanceThreshold)
    /\ ~(token2Balance >= minimumBalanceThreshold)

\* A mutant of availableToken1: the reserve is subtracted without the floor at 0.
availableToken1Unfloored(token1Symbol, token1Balance) ==
    IF token1Symbol = "APT"
    THEN token1Balance - gasReserveAPT
    ELSE token1Balance

\* part_007 lines 827-831
availableToken1(token1Symbol, token1Balance) ==
    IF token1Symbol = "APT"
    THEN Max(0, token1Balance - gasReserveAPT)
    ELSE token1Balance

NoRatio ==
    [ok |-> FALSE, token1Balance |-> 0, token2Balance |-> 0, availableToken1 |-> 0,
     swapFrom |-> "none", swapAmountRaw |-> 0,
     den |-> 1, optimalToken1Amount |-> 0, optimalToken2Amount |-> 0,
     token1Deficit |-> 0, token2Deficit |-> 0]

\* a choice of the side that does not ask whether the balance covers the swap
swapFromSideUncovered(token1Deficit, token2Deficit, avail, token2Balance, den) ==
    IF token1Deficit > 0
    THEN "token2"
    ELSE IF token2Deficit > 0 THEN "token1" ELSE "none"

\* part_007 lines 914-929 and 936-951: the token a swap takes from; deficits
\* are numerators over den
swapFromSide(token1Deficit, token2Deficit, avail, token2Balance, den) ==
    IF token1Deficit > 0 /\ token2Balance * den > Abs(token2Deficit)
    THEN "token2"
    ELSE IF token2Deficit > 0 /\ avail * den > Abs(token1Deficit)
         THEN "token1"
         ELSE "none"

\* A mutant of optimalToken2: the token1 optimum is valued at the market price.
optimalToken2AtMarketPrice(optimalToken1Amount, market) ==
    optimalToken1Amount * market.marketPrice

\* part_007 line 856: optimalToken1Amount * liquidityRatio
optimalToken2(optimalToken1Amount, market) ==
    optimalToken1Amount * market.liquidityRatio

\* part_007 lines 827-992.  The optimum and the deficits are kept as
\* numerators over marketPrice + liquidityRatio.
calculateOptimalRatioData(pool, bal, market) ==
    LET avail == availableToken1(pool[1], bal.token1)
        token2Balance == bal.token2
        den == market.marketPrice + market.liquidityRatio
        totalValueInToken2 == avail * market.marketPrice + token2Balance
        optimalToken1Amount == totalValueInToken2
        optimalToken2Amount == optimalToken2(optimalToken1Amount, market)
        token1Deficit == optimalToken1Amount - avail * den
        token2Deficit == optimalToken2Amount - token2Balance * den
        blocked == isAPTstkAPTPool(pool) /\ BothNearZero(avail, token2Balance)
        considered ==
            /\ avail > 0 \/ token2Balance > 0
            /\ ~blocked
            /\ \/ Abs(token1Deficit) > minSwapThreshold * den
               \/ Abs(token2Deficit) > minSwapThreshold * den
        from == IF considered
                THEN swapFromSide(token1Deficit, token2Deficit, avail, token2Balance, den)
                ELSE "none"
        swapAmountRaw ==
            CASE from = "token2" -> Abs(token2Deficit) \div den
              [] from = "token1" -> Abs(token1Deficit) \div den
              [] OTHER -> 0
    IN IF ~market.ratioOk
       THEN NoRatio
       ELSE [ok |-> TRUE, token1Balance |-> bal.token1, token2Balance |-> token2Balance,
             availableToken1 |-> avail, swapFrom |-> from, swapAmountRaw |-> swapAmountRaw,
             den |-> den, optimalToken1Amount |-> optimalToken1Amount,
             optimalToken2Amount |-> optimalToken2Amount,
             token1Deficit |-> token1Deficit, token2Deficit |-> token2Deficit]

\* percentages are kept in units of 1/PctScale percent, which holds every
\* midpoint of the search exactly
PctScale == 5120

minPercentage == 50 * PctScale

maxPercentage == 999 * (PctScale \div 10)

tolerance == PctScale \div 10

fallbackPercentage == 80 * PctScale

maxIterations == 20

\* amounts are rounded down to a multiple of this many raw units
RoundTo == 1000

\* Math.floor(a * (pct / 100)) for a raw amount a, without leaving 32 bits
PercentOf(a, pct) ==
    LET tenths == pct \div (PctScale \div 10)
        rest == pct % (PctScale \div 10)
    IN (a * tenths + (a * rest) \div (PctScale \div 10)) \div 1000

RoundDown(raw) == (raw \div RoundTo) * RoundTo

\* sdk.Pool.estCurrencyBAmountFromA for the range of the new position
estCurrencyBAmountFromA(market, currencyAAmount) == currencyAAmount * market.liquidityRatio

\* part_005 lines 108-158: one test of the search
TestAllocation(ratio, market, pct) ==
    LET roundedToken1AmountRaw == RoundDown(PercentOf(ratio.availableToken1, pct))
        roundedToken2AmountRaw == RoundDown(estCurrencyBAmountFromA(market, roundedToken1AmountRaw))
    IN [feasible |-> market.oracleOk /\ roundedToken2AmountRaw <= ratio.token2Balance,
        token1AmountRaw |-> roundedToken1AmountRaw,
        token2AmountRaw |-> roundedToken2AmountRaw]

NoAllocation ==
    [found |-> FALSE, percentage |-> 0, token1AmountRaw |-> 0, token2AmountRaw |-> 0, iterations |-> 0]

\* a search that is content with the first percentage it finds feasible
RECURSIVE AllocationSearchFirstFit(_, _, _, _, _, _)
AllocationSearchFirstFit(ratio, market, minP, maxP, iteration, best) ==
    IF iteration < maxIterations /\ (maxP - minP) > tolerance
    THEN LET currentPercentage == (minP + maxP) \div 2
             t == TestAllocation(ratio, market, currentPercentage)
         IN IF t.feasible
            THEN [found |-> TRUE, percentage |-> currentPercentage,
                  token1AmountRaw |-> t.token1AmountRaw,
                  token2AmountRaw |-> t.token2AmountRaw, iterations |-> iteration + 1]
            ELSE AllocationSearchFirstFit(ratio, market, minP, currentPercentage, iteration + 1,
                     [best EXCEPT !.iterations = iteration + 1])
    ELSE best

\* part_005 lines 97-159: the binary search
RECURSIVE AllocationSearch(_, _, _, _, _, _)
AllocationSearch(ratio, market, minP, maxP, iteration, best) ==
    IF iteration < maxIterations /\ (maxP - minP) > tolerance
    THEN LET currentPercentage == (minP + maxP) \div 2
             t == TestAllocation(ratio, market, currentPercentage)
         IN IF t.feasible
            THEN AllocationSearch(ratio, market, currentPercentage, maxP, iteration + 1,
                     [found |-> TRUE, percentage |-> currentPercentage,
                      token1AmountRaw |-> t.token1AmountRaw,
                      token2AmountRaw |-> t.token2AmountRaw, iterations |-> iteration + 1])
            ELSE AllocationSearch(ratio, market, minP, currentPercentage, iteration + 1,
                     [best EXCEPT !.iterations = iteration + 1])
    ELSE best

\* part_005 lines 161-198: the 80% fallback when the search found nothing
WithFallback(ratio, market, best) ==
    LET t == TestAllocation(ratio, market, fallbackPercentage)
    IN IF ~best.found /\ t.feasible
       THEN [best EXCEPT !.found = TRUE, !.percentage = fallbackPercentage,
                         !.token1AmountRaw = t.token1AmountRaw,
                         !.token2AmountRaw = t.token2AmountRaw]
       ELSE best

NoPayload(error) ==
    [ok |-> FALSE, percentage |-> 0, currencyAAmount |-> 0, currencyBAmount |-> 0,
     iterations |-> 0, error |-> error]

\* part_005 lines 28-275
getCreatePoolPayload(ratio, market) ==
    LET best == WithFallback(ratio, market,
                    AllocationSearch(ratio, market, minPercentage, maxPercentage, 0, NoAllocation))
    IN IF ratio.availableToken1 < minimumForPosition
       THEN NoPayload("Insufficient token1 for position creation")
       ELSE IF ratio.token2Balance < minimumForPosition
       THEN NoPayload("Insufficient token2 for position creation")
       ELSE IF ~best.found
       THEN NoPayload("No feasible allocation found")
       ELSE IF best.token1AmountRaw > ratio.availableToken1
       THEN NoPayload("Insufficient token1 balance")
       ELSE IF best.token2AmountRaw > ratio.token2Balance
       THEN NoPayload("Insufficient token2 balance")
       ELSE [ok |-> TRUE, percentage |-> best.percentage, currencyAAmount |-> best.token1AmountRaw,
             currencyBAmount |-> best.token2AmountRaw, iterations |-> best.iterations,
             error |-> ""]

\* the oracle queries of one call: one for each iteration of the search, and
\* one for the fallback when the search found nothing
OracleQueries(ratio, market) ==
    LET best == AllocationSearch(ratio, market, minPercentage, maxPercentage, 0, NoAllocation)
    IN IF ratio.availableToken1 < minimumForPosition \/ ratio.token2Balance < minimumForPosition
       THEN 0
       ELSE best.iterations + (IF best.found THEN 0 ELSE 1)

\* part_007 line 766
maxBalanceFetchAttempts == 3

\* what each attempt of a read loop meets, for one attempt more than the
\* loop can make
ReadOutcomes == [1..(maxBalanceFetchAttempts + 1) -> {"ok", "throws"}]

\* a loop that goes on after its last attempt
MoreAttemptsOneMore(balanceFetchAttempts) == balanceFetchAttempts <= maxBalanceFetchAttempts

\* part_007 line 768: the condition of the loop
MoreAttempts(balanceFetchAttempts) == balanceFetchAttempts < maxBalanceFetchAttempts

NoBalances == [token1 |-> 0, token2 |-> 0]

\* part_007 lines 762-825: the balance read loop.  reads[n] is what the n-th
\* attempt meets; a read that succeeds returns what the wallet holds.
RECURSIVE fetchBalances(_, _, _, _, _)
fetchBalances(pool, holdings, reads, balanceFetchAttempts, bal) ==
    IF MoreAttempts(balanceFetchAttempts)
    THEN LET n == balanceFetchAttempts + 1
             hasToken1 == holdings.token1 > RawPerToken \div 1000
             hasToken2 == holdings.token2 > RawPerToken \div 1000
         IN IF reads[n] = "ok"
            THEN IF /\ isAPTstkAPTPool(pool)
                    /\ ~hasToken1 \/ ~hasToken2
                    /\ n < maxBalanceFetchAttempts
                 THEN fetchBalances(pool, holdings, reads, n, holdings)
                 ELSE [bal |-> holdings, attempts |-> n]
            ELSE fetchBalances(pool, holdings, reads, n, bal)
    ELSE [bal |-> bal, attempts |-> balanceFetchAttempts]

RtKeep ==
    /\ rt_steps' = rt_steps + 1
    /\ UNCHANGED <<clock, poolEnabled, txVars, wkVars, entry, rbVars, flVars, clVars, rt_pool, rt_market,
                   rt_workflow, cyVars, tkVars, fbVars>>

Spend(symbol, amount, before) == [symbol |-> symbol, amount |-> amount, before |-> before]

\* part_007 lines 2546-2555: the flow leaves a missing pool alone when both
\* balances are below 0.1
Skipped(workflow, ratio) ==
    /\ workflow = "missing pool"
    /\ ~(ratio.availableToken1 >= RawPerToken \div 10)
    /\ ~(ratio.token2Balance >= RawPerToken \div 10)

\* part_006 lines 144-149 and part_007 lines 2533-2555: the ratio data read
\* before the swap
RtRatio ==
    /\ rt_pc = "ratio"
    /\ \E reads \in ReadOutcomes :
         LET f == fetchBalances(rt_pool, rt_wallet, reads, 0, NoBalances)
             r == calculateOptimalRatioData(rt_pool, f.bal, rt_market)
         IN /\ rt_bal' = f.bal
            /\ rt_attempts' = f.attempts
            /\ rt_ratio' = r
            /\ rt_pc' = IF r.ok /\ ~Skipped(rt_workflow, r) THEN "swap" ELSE "done"
            /\ rt_payload' =
                 CASE ~r.ok /\ rt_workflow = "missing pool" -> NoPayload("Cannot get ratio data")
                   [] ~r.ok -> NoPayload("Failed to get ratio data")
                   [] Skipped(rt_workflow, r) -> NoPayload("Insufficient balance to create position")
                   [] OTHER -> rt_payload
    /\ UNCHANGED <<rt_wallet, rt_queries, rt_spends>>
    /\ RtKeep

\* part_006 line 164: 90% of the recommended amount
swapPercentage == 9

\* part_007 line 2589: 80% of it in the flow's creation for a missing pool
preCreationSwapPercentage == 8

SwapAmountRaw(ratio) ==
    (ratio.swapAmountRaw *
        (IF rt_workflow = "missing pool" THEN preCreationSwapPercentage ELSE swapPercentage)) \div 10

\* what the wallet holds after amount of the from-token was swapped at the
\* market price
AfterSwap(bal, market, from, amount) ==
    IF from = "token2"
    THEN [token1 |-> bal.token1 + amount \div market.marketPrice, token2 |-> bal.token2 - amount]
    ELSE [token1 |-> bal.token1 - amount, token2 |-> bal.token2 + amount * market.marketPrice]

\* part_006 lines 226-241: the safety check before the creation
CreationBlocked(pool, ratio) ==
    isAPTstkAPTPool(pool) /\ BothNearZero(ratio.availableToken1, ratio.token2Balance)

\* part_006 lines 219-241: executeRebalancing reads the ratio data again
\* whether it swapped or not, and throws when it gets none or when the
\* safety check blocks the creation
AfterFinalRead(final) ==
    IF ~final.ok
    THEN [pc |-> "done", ratio |-> rt_ratio, read |-> FALSE,
          payload |-> NoPayload("Failed to get final ratio data")]
    ELSE IF CreationBlocked(rt_pool, final)
    THEN [pc |-> "done", ratio |-> final, read |-> TRUE,
          payload |-> NoPayload("Cannot create position")]
    ELSE [pc |-> "create", ratio |-> final, read |-> TRUE, payload |-> rt_payload]

\* part_007 lines 2596-2603: the flow reads the ratio data again only after a
\* swap, and takes the new data over the old when it gets some
AfterUpdatedRead(swapping, updated) ==
    IF swapping /\ updated.ok
    THEN [pc |-> "create", ratio |-> updated, read |-> TRUE, payload |-> rt_payload]
    ELSE [pc |-> "create", ratio |-> rt_ratio, read |-> FALSE, payload |-> rt_payload]

\* part_006 lines 151-241 and part_007 lines 2581-2604: the swap when one is
\* recommended, then the ratio data the creation uses
RtSwap ==
    /\ rt_pc = "swap"
    /\ \E swapOk \in BOOLEAN, readOk \in BOOLEAN, reads \in ReadOutcomes :
         LET swapping == rt_ratio.swapAmountRaw > 0 /\ rt_ratio.swapFrom # "none"
             amount == SwapAmountRaw(rt_ratio)
             holdings == IF swapping /\ swapOk
                       THEN AfterSwap(rt_wallet, rt_market, rt_ratio.swapFrom, amount)
                       ELSE rt_wallet
             f == fetchBalances(rt_pool, holdings, reads, 0, NoBalances)
             final == calculateOptimalRatioData(rt_pool, f.bal,
                          [rt_market EXCEPT !.ratioOk = readOk])
             next == IF rt_workflow = "missing pool"
                     THEN AfterUpdatedRead(swapping, final)
                     ELSE AfterFinalRead(final)
         IN /\ swapping \/ swapOk
            /\ rt_wallet' = holdings
            /\ rt_bal' = IF swapOk /\ next.read THEN f.bal ELSE rt_bal
            /\ rt_attempts' = IF swapOk /\ next.read THEN f.attempts ELSE rt_attempts
            /\ rt_spends' =
                 IF swapping /\ swapOk
                 THEN Append(rt_spends,
                        IF rt_ratio.swapFrom = "token2"
                        THEN Spend(rt_pool[2], amount, rt_wallet.token2)
                        ELSE Spend(rt_pool[1], amount, rt_wallet.token1))
                 ELSE rt_spends
            /\ IF ~swapOk
               THEN rt_pc' = "done" /\ rt_payload' = NoPayload("swap failed") /\ rt_ratio' = rt_ratio
               ELSE rt_pc' = next.pc /\ rt_payload' = next.payload /\ rt_ratio' = next.ratio
    /\ UNCHANGED rt_queries
    /\ RtKeep

\* the create transaction goes through when the wallet holds its amounts
Covered(p) ==
    /\ p.ok
    /\ p.currencyAAmount <= rt_wallet.token1
    /\ p.currencyBAmount <= rt_wallet.token2

\* part_006 lines 260-286 and part_007 lines 2606-2623: the payload and the
\* creation with its amounts
RtCreate ==
    /\ rt_pc = "create"
    /\ \E p \in {getCreatePoolPayload(rt_ratio, rt_market)} :
          /\ rt_payload' = p
          /\ rt_queries' = OracleQueries(rt_ratio, rt_market)
          /\ rt_wallet' = IF Covered(p)
                          THEN [token1 |-> rt_wallet.token1 - p.currencyAAmount,
                                token2 |-> rt_wallet.token2 - p.currencyBAmount]
                          ELSE rt_wallet
          /\ rt_spends' = IF Covered(p)
                          THEN rt_spends \o
                               << Spend(rt_pool[1], p.currencyAAmount, rt_wallet.token1),
                                  Spend(rt_pool[2], p.currencyBAmount, rt_wallet.token2) >>
                          ELSE rt_spends
    /\ rt_pc' = "done"
    /\ UNCHANGED <<rt_ratio, rt_bal, rt_attempts>>
    /\ RtKeep

RtRest ==
    /\ rt_pc = "ratio"
    /\ rt_workflow = "executeRebalancing"
    /\ rt_pool = <<"USDC", "USDT">>
    /\ rt_wallet = NoBalances
    /\ rt_bal = NoBalances
    /\ rt_attempts = 0
    /\ rt_queries = 0
    /\ rt_steps = 0
    /\ rt_market = [marketPrice |-> 1, liquidityRatio |-> 1, ratioOk |-> TRUE, oracleOk |-> TRUE]
    /\ rt_ratio = NoRatio
    /\ rt_spends = <<>>
    /\ rt_payload = NoPayload("")

RtInit ==
    /\ rt_pc = "ratio"
    /\ rt_workflow = "executeRebalancing"
    /\ rt_pool \in TokenPairs
    /\ rt_wallet \in [token1 : Balances, token2 : Balances]
    /\ rt_bal = NoBalances
    /\ rt_attempts = 0
    /\ rt_queries = 0
    /\ rt_steps = 0
    /\ rt_market \in [marketPrice : MarketPrices, liquidityRatio : LiquidityRatios,
                      ratioOk : BOOLEAN, oracleOk : BOOLEAN]
    /\ rt_ratio = NoRatio
    /\ rt_spends = <<>>
    /\ rt_payload = NoPayload("")

\* the flow's creation for a pool that has no position
MpInit ==
    /\ rt_pc = "ratio"
    /\ rt_workflow = "missing pool"
    /\ rt_pool \in TokenPairs
    /\ rt_wallet \in [token1 : Balances, token2 : Balances]
    /\ rt_bal = NoBalances
    /\ rt_attempts = 0
    /\ rt_queries = 0
    /\ rt_steps = 0
    /\ rt_market \in [marketPrice : MarketPrices, liquidityRatio : LiquidityRatios,
                      ratioOk : BOOLEAN, oracleOk : BOOLEAN]
    /\ rt_ratio = NoRatio
    /\ rt_spends = <<>>
    /\ rt_payload = NoPayload("")

RtNext ==
    \/ RtRatio
    \/ RtSwap
    \/ RtCreate

(***************************************************************************)
(* Properties of the amounts                                               *)
(***************************************************************************)
\* the amounts taken from the wallet in the given token
SpendsOf(symbol) == { i \in DOMAIN rt_spends : rt_spends[i].symbol = symbol /\ rt_spends[i].amount > 0 }

\* C20: no swap and no position-creation amount spends APT below the reserve
\* of 1.0: after every amount of APT the run takes from the wallet, at least
\* gasReserveAPT is left, whichever side of the pool APT is on.
C20_GasReserveKept ==
    \A i \in SpendsOf("APT") : rt_spends[i].before - rt_spends[i].amount >= gasReserveAPT

\* the ratio data in hand was computed from the wallet as it is now
RatioIsCurrent == rt_pc \in {"swap", "create"}

\* the pool with the same token1 and an unrelated token2
StandardPool(pool) == <<pool[1], "USDC">>

\* below the near-zero threshold of 0.01
Low(amount) == amount < RawPerToken \div 100

BothLow(ratio) == Low(ratio.availableToken1) /\ Low(ratio.token2Balance)

OneLow(ratio) == Low(ratio.availableToken1) # Low(ratio.token2Balance)

\* C21: for the APT/stkAPT pair, when availableToken1 and token2Balance are
\* both below 0.01 no swap is recommended and the creation is aborted; when
\* only one of them is below 0.01 the swap recommendation is the one any
\* other pool gets and the creation is not aborted by the safety check.
\* (At most one amount was taken from the wallet then: that of a swap which
\* earlier ratio data recommended, never those of a creation.)
C21_BothNearZeroBlocks ==
    (rt_ratio.ok /\ isAPTstkAPTPool(rt_pool)) =>
        /\ BothLow(rt_ratio) =>
              /\ rt_ratio.swapFrom = "none"
              /\ rt_ratio.swapAmountRaw = 0
              /\ rt_pc # "create"
              /\ ~rt_payload.ok
              /\ Len(rt_spends) <= 1
              /\ rt_pc = "done" =>
                    rt_payload.error \in {"Cannot create position", "Failed to get final ratio data"}
        /\ OneLow(rt_ratio) =>
              /\ RatioIsCurrent =>
                    rt_ratio = calculateOptimalRatioData(StandardPool(rt_pool), rt_bal, rt_market)
              /\ rt_payload.error # "Cannot create position"

\* a run of the pair was aborted before the creation with both balances
\* near zero, the wallet not being empty
C21_Witness ==
    /\ isAPTstkAPTPool(rt_pool)
    /\ rt_ratio.ok
    /\ rt_pc = "done"
    /\ BothLow(rt_ratio)
    /\ rt_bal.token2 > 0
    /\ rt_payload.error = "Cannot create position"

\* the steps a run can have taken when it is where it is
RtRank(pc) == CASE pc = "ratio" -> 0 [] pc = "swap" -> 1 [] pc = "create" -> 2 [] OTHER -> 3

\* C26: every run reaches its end, the payload or the error it ends with,
\* after a bounded number of steps: it has taken no more than three when it
\* ends, a run that has not ended has a step to take whatever its remote
\* calls answer, no balance read loop makes more than 3 attempts and
\* getCreatePoolPayload makes no more than 20 oracle queries for its search
\* and one for its fallback.
C26_RunEndsWithinBounds ==
    /\ rt_steps <= RtRank(rt_pc)
    /\ rt_pc # "done" => ENABLED RtNext
    /\ rt_attempts <= 3
    /\ rt_queries <= 20 + 1

\* the same as the end every run comes to when each of its steps is taken
RunEnds == <>(rt_pc = "done")

\* the steps of executeRebalancing around the amounts (removal, transactions,
\* messages, top-up): a run that has not returned has a step to take
RbNeverStuck ==
    (entry = "executeRebalancing" /\ rb_pc \notin {"returned", "thrown"}) => ENABLED RbNext

\* a run ended after a balance read loop used its three attempts and the
\* search used its fallback query
C26_Witness ==
    /\ rt_pc = "done"
    /\ rt_attempts = 3
    /\ rt_queries > 0
    /\ rt_queries = AllocationSearch(rt_ratio, rt_market, minPercentage, maxPercentage, 0, NoAllocation).iterations + 1

\* the token2 the oracle requires for pct of the available token1, rounded as
\* the amounts of the payload are
RequiredToken2(pct) ==
    RoundDown(rt_market.liquidityRatio * RoundDown(PercentOf(rt_ratio.availableToken1, pct)))

\* the percentages from pct on, one percentage point apart, up to the upper
\* end of the search
PercentagesFrom(pct) ==
    { pct + k * PctScale : k \in 0..((maxPercentage - minPercentage) \div PctScale) }
        \cap (minPercentage..maxPercentage)

PayloadProduced == rt_pc = "done" /\ rt_payload.ok

\* C28: a payload is produced only if neither raw amount exceeds the raw
\* balance it is taken from (token1 after the gas reserve) and neither raw
\* amount is below the minimum of 0.001.
C28_PayloadWithinBalanceAndMinimum ==
    PayloadProduced =>
        /\ rt_payload.currencyAAmount <= rt_ratio.availableToken1
        /\ rt_payload.currencyBAmount <= rt_ratio.token2Balance
        /\ rt_payload.currencyAAmount >= RawPerToken \div 1000
        /\ rt_payload.currencyBAmount >= RawPerToken \div 1000

\* what the code does enforce: the amounts are within the balances, and the
\* balances, not the amounts, are at least 0.001
PayloadWithinBalance ==
    PayloadProduced =>
        /\ rt_payload.currencyAAmount <= rt_ratio.availableToken1
        /\ rt_payload.currencyBAmount <= rt_ratio.token2Balance
        /\ rt_ratio.availableToken1 >= RawPerToken \div 1000
        /\ rt_ratio.token2Balance >= RawPerToken \div 1000

\* a payload whose token1 amount is nothing, with more than the minimum of
\* token1 available
PayloadOfNothing ==
    /\ PayloadProduced
    /\ rt_payload.currencyAAmount = 0
    /\ rt_ratio.availableToken1 >= RawPerToken \div 1000

\* a swap of the workflow was confirmed and took something from the wallet
SwapExecuted == \E i \in DOMAIN rt_spends : rt_spends[i].amount > 0

\* the balances the ratio data in hand was computed from
RatioBalances == [token1 |-> rt_ratio.token1Balance, token2 |-> rt_ratio.token2Balance]

\* C30: whenever a swap was executed, the create step that follows takes its
\* amounts from ratio data computed from balances read after the swap: what
\* the wallet then holds, or nothing when every attempt of that read failed.
C30_CreationUsesBalancesAfterSwap ==
    (rt_pc = "create" /\ SwapExecuted) => RatioBalances \in {rt_wallet, NoBalances}

\* a creation is about to take its amounts from ratio data read before the
\* swap that was executed since
StaleRatioAtCreation ==
    /\ rt_pc = "create"
    /\ SwapExecuted
    /\ RatioBalances \notin {rt_wallet, NoBalances}

\* what token1 lacks of its optimum, times marketPrice + liquidityRatio:
\* (availableToken1 * marketPrice + token2Balance) - availableToken1 * den
Token1Lack == rt_ratio.token2Balance - rt_ratio.availableToken1 * rt_market.liquidityRatio

\* what token2 lacks of its optimum, times marketPrice + liquidityRatio
Token2Lack ==
    rt_market.marketPrice *
        (rt_ratio.availableToken1 * rt_market.liquidityRatio - rt_ratio.token2Balance)

\* 0.01 as a numerator over marketPrice + liquidityRatio
SwapThreshold == (RawPerToken \div 100) * (rt_market.marketPrice + rt_market.liquidityRatio)

\* C36: for any marketPrice > 0, liquidityRatio >= 0 and balances, the optimum
\* computed satisfies optimalToken2 = optimalToken1 * liquidityRatio and
\* optimalToken1 * marketPrice + optimalToken2 =
\* availableToken1 * marketPrice + token2Balance, hence
\* token1Deficit * marketPrice + token2Deficit = 0.  The amounts of the state
\* are numerators over den = marketPrice + liquidityRatio.
C36_OptimumKeepsValueAndRatio ==
    rt_ratio.ok =>
        /\ rt_market.marketPrice > 0
        /\ rt_market.liquidityRatio >= 0
        /\ rt_ratio.den > 0
        /\ rt_ratio.optimalToken2Amount = rt_ratio.optimalToken1Amount * rt_market.liquidityRatio
        /\ rt_ratio.optimalToken1Amount * rt_market.marketPrice + rt_ratio.optimalToken2Amount
              = (rt_ratio.availableToken1 * rt_market.marketPrice + rt_ratio.token2Balance) * rt_ratio.den
        /\ rt_ratio.token1Deficit * rt_market.marketPrice + rt_ratio.token2Deficit = 0
        /\ rt_ratio.token1Deficit = rt_ratio.optimalToken1Amount - rt_ratio.availableToken1 * rt_ratio.den
        /\ rt_ratio.token2Deficit = rt_ratio.optimalToken2Amount - rt_ratio.token2Balance * rt_ratio.den

\* C36 witness: an optimum computed for a wallet that holds more token1 than
\* the range asks for: token1 in surplus, token2 in deficit
C36_Witness ==
    /\ rt_ratio.ok
    /\ rt_market.liquidityRatio > 0
    /\ rt_market.marketPrice > 1
    /\ rt_ratio.availableToken1 > 0
    /\ rt_ratio.token1Deficit < 0
    /\ rt_ratio.token2Deficit > 0

\* C37: availableToken1 is max(0, token1Balance - 1.0) when token1 is the
\* native gas token (5.0 gives 4.0, a balance below 1.0 gives 0) and
\* token1Balance otherwise.
C37_ReserveOnToken1 ==
    rt_ratio.ok =>
        /\ rt_pool[1] = "APT" =>
              /\ rt_ratio.token1Balance >= RawPerToken
                    => rt_ratio.availableToken1 + RawPerToken = rt_ratio.token1Balance
              /\ rt_ratio.token1Balance < RawPerToken => rt_ratio.availableToken1 = 0
              /\ rt_ratio.token1Balance = 5 * RawPerToken
                    => rt_ratio.availableToken1 = 4 * RawPerToken
        /\ rt_pool[1] # "APT" => rt_ratio.availableToken1 = rt_ratio.token1Balance

\* C37 witness: ratio data read for a wallet with less than 1.0 of the gas
\* token as token1
C37_Witness ==
    /\ rt_ratio.ok
    /\ rt_pool[1] = "APT"
    /\ rt_ratio.token1Balance > 0
    /\ rt_ratio.token1Balance < RawPerToken
    /\ rt_ratio.availableToken1 = 0

\* the example: 5.0 of the gas token as token1 leaves 4.0
FiveLeavesFour ==
    /\ rt_ratio.ok
    /\ rt_pool[1] = "APT"
    /\ rt_ratio.token1Balance = 5 * RawPerToken
    /\ rt_ratio.availableToken1 = 4 * RawPerToken

\* the gas token as token2 is left whole
Token2NotReserved ==
    /\ rt_ratio.ok
    /\ rt_pool[2] = "APT"
    /\ rt_ratio.token2Balance = 5 * RawPerToken
    /\ rt_ratio.availableToken1 = rt_ratio.token1Balance

\* C31: whenever a swap is recommended, the token it takes from is the one in
\* surplus and the other one is in deficit, the amount is strictly less than
\* what is available of the from-token, and no swap is recommended when both
\* deficits are within 0.01.
C31_SwapFromSurplus ==
    rt_ratio.ok =>
        /\ rt_ratio.swapFrom = "token2" =>
              /\ Token2Lack < 0
              /\ Token1Lack > 0
              /\ rt_ratio.swapAmountRaw < rt_ratio.token2Balance
        /\ rt_ratio.swapFrom = "token1" =>
              /\ Token1Lack < 0
              /\ Token2Lack > 0
              /\ rt_ratio.swapAmountRaw < rt_ratio.availableToken1
        /\ rt_ratio.swapFrom = "none" => rt_ratio.swapAmountRaw = 0
        /\ (/\ Token1Lack <= SwapThreshold /\ -Token1Lack <= SwapThreshold
            /\ Token2Lack <= SwapThreshold /\ -Token2Lack <= SwapThreshold) =>
              rt_ratio.swapFrom = "none"

\* a swap from token1, which is in surplus, is recommended
C31_Witness ==
    /\ rt_pc = "swap"
    /\ rt_ratio.ok
    /\ rt_ratio.swapFrom = "token1"
    /\ rt_ratio.swapAmountRaw > 0
    /\ Token2Lack > SwapThreshold

\* no swap is recommended for deficits that are not zero and within 0.01
SmallDeficitsLeftAlone ==
    /\ rt_pc = "swap"
    /\ rt_ratio.swapFrom = "none"
    /\ Token1Lack # 0
    /\ Token1Lack <= SwapThreshold /\ -Token1Lack <= SwapThreshold
    /\ Token2Lack <= SwapThreshold /\ -Token2Lack <= SwapThreshold

\* the same with APT as token1 of the pool only
GasReserveKeptAsToken1 == rt_pool[1] = "APT" => C20_GasReserveKept

\* APT was spent as token1
SpentAptAsToken1 == rt_pool[1] = "APT" /\ SpendsOf("APT") # {}

(***************************************************************************)
(* Automatic cycles: scheduled() calls executeRebalancingFlow again and    *)
(* again.  Each pool holds at most one position of the account.            *)
(***************************************************************************)
\* part_007:2503-2515 over the positions of the cycles
CyMissingPositionPools ==
    SelectSeq(DEFAULT_POOLS_TO_MANAGE, LAMBDA p : poolEnabled[p] /\ cy_status[p] = "none")

\* part_006:512-560: the inactive positions of the enabled pools
CyInactivePositions ==
    SelectSeq(DEFAULT_POOLS_TO_MANAGE, LAMBDA p : poolEnabled[p] /\ cy_status[p] = "inactive")

CyKeep == UNCHANGED <<clock, poolEnabled, txVars, wkVars, entry, rbVars, flVars, clVars, rtVars, tkVars, fbVars>>

\* worker.ts:296-334 and part_007:2426-2492, 2497-2499, 2926-2932: the cycle
\* starts and ends at once: checkRebalancingNeeded reports a failure, or the
\* read of the positions throws
CyCheckFails ==
    /\ cy_pc = "idle"
    /\ \E failed \in {"check", "read"} :
          failed = "read" => CyInactivePositions = <<>>
    /\ UNCHANGED cyVars
    /\ CyKeep

\* part_007:2477-2494, 2645-2674: the check found inactive positions, which
\* the cycle goes on to rebalance
CyCheckRebalance ==
    /\ cy_pc = "idle"
    /\ CyInactivePositions # <<>>
    /\ cy_pc' = "rebalance"
    /\ cy_queue' = CyInactivePositions
    /\ UNCHANGED <<cy_status, cy_attempted>>
    /\ CyKeep

\* part_007:2494-2527: no inactive position, and enabled pools without a
\* position: the cycle goes on to create in the pools it keeps
CyCheckMissing ==
    /\ cy_pc = "idle"
    /\ CyInactivePositions = <<>>
    /\ CyMissingPositionPools # <<>>
    /\ cy_pc' = "create"
    /\ cy_queue' = MissingToProcess(CyMissingPositionPools)
    /\ UNCHANGED <<cy_status, cy_attempted>>
    /\ CyKeep

\* part_007:2645-2650: nothing inactive and nothing missing: the cycle ends
CyCheckOptimal ==
    /\ cy_pc = "idle"
    /\ CyInactivePositions = <<>>
    /\ CyMissingPositionPools = <<>>
    /\ UNCHANGED cyVars
    /\ CyKeep

\* part_007:2529-2644: the creation for a position-less pool; the pool gets
\* its position when the create transaction is confirmed
CyCreate ==
    /\ cy_pc = "create"
    /\ cy_queue # <<>>
    /\ \E created \in BOOLEAN :
          cy_status' = IF created THEN [cy_status EXCEPT ![Head(cy_queue)] = "active"]
                                  ELSE cy_status
    /\ cy_attempted' = [cy_attempted EXCEPT ![Head(cy_queue)] = TRUE]
    /\ cy_queue' = Tail(cy_queue)
    /\ cy_pc' = IF Tail(cy_queue) = <<>> THEN "idle" ELSE "create"
    /\ CyKeep

\* part_007:2676-2716: executeRebalancing for one inactive position: it
\* succeeds, fails before the removal, or fails after it and leaves the pool
\* without a position
CyRebalance(r) ==
    /\ cy_pc = "rebalance"
    /\ cy_queue # <<>>
    /\ cy_status' = [cy_status EXCEPT ![Head(cy_queue)] =
                        CASE r = "success" -> "active"
                          [] r = "failed" -> "inactive"
                          [] OTHER -> "none"]
    /\ cy_queue' = Tail(cy_queue)
    /\ cy_pc' = IF Tail(cy_queue) = <<>> THEN "idle" ELSE "rebalance"
    /\ UNCHANGED cy_attempted
    /\ CyKeep

\* the market moves between two cycles and an active position falls out of
\* its range
CyPriceMoves ==
    /\ cy_pc = "idle"
    /\ \E p \in Pools :
          /\ cy_status[p] = "active"
          /\ cy_status' = [cy_status EXCEPT ![p] = "inactive"]
    /\ UNCHANGED <<cy_pc, cy_queue, cy_attempted>>
    /\ CyKeep

CyRest ==
    /\ cy_pc = "idle"
    /\ cy_status = [p \in Pools |-> "none"]
    /\ cy_queue = <<>>
    /\ cy_attempted = [p \in Pools |-> FALSE]

CyInit ==
    /\ cy_pc = "idle"
    /\ cy_status \in [Pools -> {"none", "active", "inactive"}]
    /\ cy_queue = <<>>
    /\ cy_attempted = [p \in Pools |-> FALSE]

CyNext ==
    \/ CyCheckFails
    \/ CyCheckRebalance
    \/ CyCheckMissing
    \/ CyCheckOptimal
    \/ CyCreate
    \/ \E r \in {"success", "failed", "failed after removal"} : CyRebalance(r)
    \/ CyPriceMoves

\* C25: under repeated automatic cycles every enabled pool without a position
\* eventually gets a position-creation attempt, also when another pool lacks
\* a position and its creation keeps failing.
C25_MissingPoolEventuallyAttempted ==
    \A p \in Pools :
        (poolEnabled[p] /\ cy_status[p] = "none") ~> (cy_attempted[p] \/ cy_status[p] # "none")

(***************************************************************************)
(* Specifications                                                          *)
(***************************************************************************)
\* the components a specification does not exercise rest in their initial state
RbRest ==
    /\ rb_pc = "start"
    /\ rb_isCreation = FALSE
    /\ rb_send = FALSE
    /\ rb_aptPair = FALSE
    /\ rb_result = EmptyResult
    /\ rb_log = <<>>
    /\ rb_failedAt = "none"
    /\ rb_err = ""
    /\ rb_topupFailed = FALSE
    /\ rb_sendFailed = FALSE

FlRest ==
    /\ positions = <<>>
    /\ wallet = [availableToken1 |-> 0, token2Balance |-> 0]
    /\ fl_pc = "start"
    /\ fl_poolId = ""
    /\ fl_list = <<>>
    /\ fl_i = 1
    /\ fl_missing = <<>>
    /\ fl_result = EmptyFlowResult
    /\ fl_started = <<>>
    /\ fl_chain = {}
    /\ fl_swaps = {}
    /\ fl_failures = {}

(***************************************************************************)
(* The tick range of a new position (part_007:727-760)                     *)
(***************************************************************************)
\* lines 728-733: the tick spacing of each fee tier
feeConfigSpacings == {1, 5, 60, 200}

\* Math.floor(x / tickSpacing) * tickSpacing
FloorToSpacing(x, tickSpacing) == (x \div tickSpacing) * tickSpacing

\* Math.ceil(x / tickSpacing) * tickSpacing
CeilToSpacing(x, tickSpacing) == (0 - ((0 - x) \div tickSpacing)) * tickSpacing

\* lines 750-751: Number(priceToTick(...) || 0): no answer counts as tick 0
OrZero(tick) == IF tick = <<>> THEN 0 ELSE tick[1]

\* A mutant of tightestRange: the bounds are the multiples of the spacing
\* around the current tick itself.
tightestRangeAroundTick(currentTick, tickSpacing) ==
    [tickLower |-> FloorToSpacing(currentTick, tickSpacing),
     tickUpper |-> CeilToSpacing(currentTick, tickSpacing)]

\* lines 756-759: rangePercent null or undefined
tightestRange(currentTick, tickSpacing) ==
    [tickLower |-> FloorToSpacing(currentTick - tickSpacing, tickSpacing),
     tickUpper |-> CeilToSpacing(currentTick + tickSpacing, tickSpacing)]

\* lines 745-755: a rangePercent is given
percentRange(rawTickLower, rawTickUpper, tickSpacing) ==
    [tickLower |-> FloorToSpacing(OrZero(rawTickLower), tickSpacing),
     tickUpper |-> CeilToSpacing(OrZero(rawTickUpper), tickSpacing)]

\* lines 741-760
tickRange(pool, rangePercent, raw) ==
    IF rangePercent # None
       THEN percentRange(raw.lower, raw.upper, pool.tickSpacing)
       ELSE tightestRange(pool.currentTick, pool.tickSpacing)

CurrentTicks == ((0 - TickReach)..TickReach) \cup {0 - 500, 500}

RawTicks == (0 - RawReach)..RawReach

\* the percentages asked for: none, 0 (lowerPrice = upperPrice = marketPrice)
\* and 5
TkRangePercents == {None, 0, 5}

\* what priceToTick answers: a tick <<t>>, or nothing
Answers == { <<t>> : t \in RawTicks } \cup {<<>>}

TkRest ==
    /\ tk_pc = "idle"
    /\ tk_pool = [currentTick |-> 0, tickSpacing |-> 1]
    /\ tk_rangePercent = None
    /\ tk_raw = [lower |-> <<>>, upper |-> <<>>]
    /\ tk_ticks = [tickLower |-> 0, tickUpper |-> 0]

\* the pool and the range of one calculateOptimalRatioData call. priceToTick is
\* a function of the SDK: it is asked once for each price, answers the same for
\* the same price (rangePercent 0), and a lower tick for the lower of two prices
\* 10 percent apart
TkInit ==
    /\ tk_pc = "start"
    /\ tk_pool \in [currentTick : CurrentTicks, tickSpacing : feeConfigSpacings]
    /\ tk_rangePercent \in TkRangePercents
    /\ tk_raw \in [lower : Answers, upper : Answers]
    /\ tk_rangePercent = None => tk_raw = [lower |-> <<>>, upper |-> <<>>]
    /\ tk_rangePercent = 0 => tk_raw.lower = tk_raw.upper
    /\ tk_rangePercent = 5 =>
          /\ tk_raw.lower # <<>>
          /\ tk_raw.upper # <<>>
          /\ tk_raw.lower[1] < tk_raw.upper[1]
          /\ tk_pool.currentTick \in {0 - 500, 0, 500}
    /\ tk_rangePercent = 0 => tk_pool.currentTick \in {0 - 500, 0, 500}
    /\ tk_ticks = [tickLower |-> 0, tickUpper |-> 0]

TkKeep == UNCHANGED <<clock, poolEnabled, txVars, wkVars, entry, rbVars, flVars, clVars, rtVars, cyVars,
                      fbVars, tk_pool, tk_rangePercent, tk_raw>>

\* lines 741-760: the bounds are computed
TkCompute ==
    /\ tk_pc = "start"
    /\ tk_ticks' = tickRange(tk_pool, tk_rangePercent, tk_raw)
    /\ tk_pc' = "done"
    /\ TkKeep

TkNext == TkCompute

IsMultiple(x, tickSpacing) == x % tickSpacing = 0

\* C34: for every pool and every rangePercent, none or a percentage, the
\* bounds computed for a new position are multiples of the pool's tick spacing
\* with tickLower < tickUpper.
C34_BoundsOrderedAndAligned ==
    tk_pc = "done" =>
        /\ tk_ticks.tickLower < tk_ticks.tickUpper
        /\ IsMultiple(tk_ticks.tickLower, tk_pool.tickSpacing)
        /\ IsMultiple(tk_ticks.tickUpper, tk_pool.tickSpacing)

\* C34 counterexample: rangePercent 0 and a tick on the spacing grid: both
\* bounds are that tick
EmptyRange ==
    /\ tk_pc = "done"
    /\ tk_rangePercent = 0
    /\ tk_raw.lower # <<>>
    /\ tk_ticks.tickLower = tk_ticks.tickUpper

\* the bounds are always multiples of the spacing, and ordered whenever no
\* percentage is given or priceToTick answers two different ticks
BoundsAligned ==
    tk_pc = "done" =>
        /\ IsMultiple(tk_ticks.tickLower, tk_pool.tickSpacing)
        /\ IsMultiple(tk_ticks.tickUpper, tk_pool.tickSpacing)
        /\ tk_ticks.tickLower <= tk_ticks.tickUpper
        /\ (tk_rangePercent = None \/ OrZero(tk_raw.lower) < OrZero(tk_raw.upper))
              => tk_ticks.tickLower < tk_ticks.tickUpper

\* C35: without a rangePercent the bounds are
\* floor((currentTick - spacing) / spacing) * spacing and
\* ceil((currentTick + spacing) / spacing) * spacing, 420 and 600 for tick 500
\* and spacing 60, and they strictly contain the current tick, negative ticks
\* and multiples of the spacing included.
C35_TightestRangeContainsTick ==
    (tk_pc = "done" /\ tk_rangePercent = None) =>
        LET c == tk_pool.currentTick
            s == tk_pool.tickSpacing
        IN  /\ tk_ticks.tickLower < c
            /\ c < tk_ticks.tickUpper
            \* the greatest multiple of s that is at most c - s
            /\ IsMultiple(tk_ticks.tickLower, s)
            /\ tk_ticks.tickLower <= c - s
            /\ c - s < tk_ticks.tickLower + s
            \* the least multiple of s that is at least c + s
            /\ IsMultiple(tk_ticks.tickUpper, s)
            /\ tk_ticks.tickUpper >= c + s
            /\ c + s > tk_ticks.tickUpper - s
            /\ (c = 500 /\ s = 60) => tk_ticks = [tickLower |-> 420, tickUpper |-> 600]

\* C35 witness: the bounds computed for a negative tick that is a multiple of
\* the spacing
C35_Witness ==
    /\ tk_pc = "done"
    /\ tk_rangePercent = None
    /\ tk_pool = [currentTick |-> 0 - 120, tickSpacing |-> 60]
    /\ tk_ticks = [tickLower |-> 0 - 180, tickUpper |-> 0 - 60]

\* the example of the tightest range: tick 500 with spacing 60
TightestRangeExample ==
    /\ tk_pc = "done"
    /\ tk_rangePercent = None
    /\ tk_pool = [currentTick |-> 500, tickSpacing |-> 60]
    /\ tk_ticks = [tickLower |-> 420, tickUpper |-> 600]

(***************************************************************************)
(* fetchTokenBalance and fetchAPTBalance (part_007:125-207, 212-278)       *)
(***************************************************************************)
\* lines 126, 213: maxRetries
maxRetries == 1

\* A mutant of afterLastAttempt: the last failure is thrown to the caller.
afterLastAttemptRethrow == "throw"

\* lines 194-197, 257-264: the last failed attempt returns the fallback
afterLastAttempt == "fallback"

\* lines 149-152, 196, 206 and 259-263, 273-277: the balance returned when
\* nothing was found or nothing could be read
ZeroBalance(fn) ==
    [amount |-> [raw |-> 0, decimals |-> 8],
     symbol |-> IF fn = "fetchAPTBalance" THEN "APT" ELSE "Unknown"]

\* what one pass through the try can meet: the import of the SDK fails, the
\* balance query fails or answers nothing, the metadata query fails or answers
\* nothing, or all is read
TryOutcomes(fn) ==
    IF fn = "fetchAPTBalance"
    THEN {"import throws", "query throws", "read"}
    ELSE {"import throws", "query throws", "no balance", "metadata throws", "no metadata", "read"}

\* lines 131-176, 218-240: what the try returns; amount is rawAmount over
\* 10 ** decimals
TryResult(fn, outcome, held) ==
    CASE fn = "fetchAPTBalance" -> [amount |-> [raw |-> held.raw, decimals |-> 8], symbol |-> "APT"]
      [] outcome = "no balance" -> ZeroBalance(fn)
      [] outcome = "no metadata" -> [amount |-> [raw |-> held.raw, decimals |-> 8], symbol |-> "Unknown"]
      [] OTHER -> [amount |-> [raw |-> held.raw, decimals |-> held.decimals], symbol |-> "Token"]

Throws(outcome) == outcome \in {"import throws", "query throws", "metadata throws"}

\* the raw amounts an account holds
HeldRaw == 0..HeldReach

FbRest ==
    /\ fb_pc = "idle"
    /\ fb_fn = "none"
    /\ fb_held = [raw |-> 0, decimals |-> 8]
    /\ fb_attempt = 0
    /\ fb_error = "none"
    /\ fb_result = "none"

\* one call; line 129, 216: attempt = 1
FbInit ==
    /\ fb_pc = "try"
    /\ fb_fn \in {"fetchTokenBalance", "fetchAPTBalance"}
    /\ fb_held \in [raw : HeldRaw, decimals : {6, 8}]
    /\ fb_fn = "fetchAPTBalance" => fb_held.decimals = 8
    /\ fb_attempt = 1
    /\ fb_error = "none"
    /\ fb_result = "none"

FbKeep == UNCHANGED <<clock, poolEnabled, txVars, wkVars, entry, rbVars, flVars, clVars, rtVars, cyVars,
                      tkVars, fb_fn, fb_held>>

\* lines 130-176, 217-240: the body of the try
FbTry ==
    /\ fb_pc = "try"
    /\ \E outcome \in TryOutcomes(fb_fn) :
          IF Throws(outcome)
          THEN /\ fb_pc' = "catch"
               /\ fb_error' = outcome
               /\ UNCHANGED fb_result
          ELSE /\ fb_pc' = "returned"
               /\ fb_result' = TryResult(fb_fn, outcome, fb_held)
               /\ UNCHANGED fb_error
    /\ UNCHANGED fb_attempt
    /\ FbKeep

\* lines 178-202, 242-269: the catch: the fallback after the last attempt,
\* otherwise the wait and the next attempt
FbCatch ==
    /\ fb_pc = "catch"
    /\ IF fb_attempt = maxRetries
       THEN IF afterLastAttempt = "fallback"
            THEN fb_pc' = "returned" /\ fb_result' = ZeroBalance(fb_fn) /\ UNCHANGED fb_attempt
            ELSE fb_pc' = "thrown" /\ UNCHANGED <<fb_result, fb_attempt>>
       ELSE fb_pc' = "try" /\ fb_attempt' = fb_attempt + 1 /\ UNCHANGED fb_result
    /\ UNCHANGED fb_error
    /\ FbKeep

FbNext == FbTry \/ FbCatch

\* C38: fetchTokenBalance and fetchAPTBalance never throw: after at most 2
\* attempts a read that failed is answered with a balance of amount 0.
C38_FetchNeverThrows ==
    /\ fb_pc # "thrown"
    /\ fb_attempt <= 2
    /\ (fb_pc = "returned" /\ fb_error # "none") => fb_result.amount.raw = 0
    /\ fb_pc \in {"try", "catch"} => ENABLED FbNext

\* C38 witness: the account holds tokens, the read failed, and the call
\* returned amount 0
C38_Witness ==
    /\ fb_pc = "returned"
    /\ fb_fn = "fetchTokenBalance"
    /\ fb_held.raw > 0
    /\ fb_error = "metadata throws"
    /\ fb_result.amount.raw = 0

\* the same for fetchAPTBalance
AptFallback ==
    /\ fb_pc = "returned"
    /\ fb_fn = "fetchAPTBalance"
    /\ fb_held.raw > 0
    /\ fb_error # "none"
    /\ fb_result = ZeroBalance("fetchAPTBalance")

\* each call makes one attempt
OneAttempt == fb_attempt <= maxRetries

OrchIdle == entry = "none" /\ RbRest /\ FlRest /\ RtRest /\ CyRest /\ TkRest /\ FbRest

TxSpecInit == clock = ClockStart /\ TxInit /\ WkInit /\ ConfigInit /\ OrchIdle /\ ClRest

SpecTx == TxSpecInit /\ [][TxNext]_vars

WkSpecInit == clock = ClockStart /\ TxInit /\ WkInit /\ ConfigInit /\ OrchIdle /\ ClRest

SpecWorker == WkSpecInit /\ [][WkNext]_vars

\* one call of the orchestrator: of executeRebalancing for one position of a
\* managed pool, or of executeRebalancingFlow
OrchInit ==
    /\ clock = ClockStart
    /\ TxInit
    /\ WkInit
    /\ ClRest
    /\ RtRest
    /\ CyRest
    /\ TkRest
    /\ FbRest
    /\ \/ /\ entry = "executeRebalancing"
          /\ poolEnabled = [p \in Pools |-> TRUE]
          /\ RbInit
          /\ FlRest
       \/ /\ entry = "executeRebalancingFlow"
          /\ ConfigInit
          /\ RbRest
          /\ FlInit

OrchNext == RbNext \/ FlNext

Spec == OrchInit /\ [][OrchNext]_vars

\* the classification functions applied to positions of every shape
ClSpecInit ==
    /\ clock = ClockStart
    /\ TxInit
    /\ WkInit
    /\ poolEnabled = [p \in Pools |-> TRUE]
    /\ OrchIdle
    /\ ClInit

SpecClassify == ClSpecInit /\ [][ClNext]_vars

\* the amounts of one creation, for wallets and pools of every shape
RtSpecInit ==
    /\ clock = ClockStart
    /\ TxInit
    /\ WkInit
    /\ poolEnabled = [p \in Pools |-> TRUE]
    /\ entry = "none"
    /\ RbRest
    /\ FlRest
    /\ ClRest
    /\ CyRest
    /\ TkRest
    /\ FbRest
    /\ RtInit

SpecAmounts == RtSpecInit /\ [][RtNext]_vars

MpSpecInit ==
    /\ clock = ClockStart
    /\ TxInit
    /\ WkInit
    /\ poolEnabled = [p \in Pools |-> TRUE]
    /\ entry = "none"
    /\ RbRest
    /\ FlRest
    /\ ClRest
    /\ CyRest
    /\ TkRest
    /\ FbRest
    /\ MpInit

\* the amounts of the flow's creation for a missing pool
SpecMissingPool == MpSpecInit /\ [][RtNext]_vars

\* the same runs, in which every remote call returns or fails: a run that can
\* take a step takes one
SpecAmountsFair == SpecAmounts /\ WF_vars(RtNext)

\* automatic cycles without end: the cron trigger fires again and again, a
\* running cycle goes on to its end, rebalancings that are tried again and
\* again succeed at some time, and whenever cycles keep starting with nothing
\* to rebalance and a pool without a position, one of them gets through its
\* check and its read.  Nothing is assumed of the creations.
CySpecInit ==
    /\ clock = ClockStart
    /\ TxInit
    /\ WkInit
    /\ ConfigInit
    /\ entry = "none"
    /\ RbRest
    /\ FlRest
    /\ ClRest
    /\ RtRest
    /\ TkRest
    /\ FbRest
    /\ CyInit

CyFairness ==
    /\ SF_vars(CyCheckMissing)
    /\ WF_vars(CyCheckRebalance)
    /\ WF_vars(CyCreate)
    /\ SF_vars(CyRebalance("success"))

SpecCycles == CySpecInit /\ [][CyNext]_vars /\ CyFairness

\* the tick range of a new position, for pools and ranges of every shape
TkSpecInit ==
    /\ clock = ClockStart
    /\ TxInit
    /\ WkInit
    /\ poolEnabled = [p \in Pools |-> TRUE]
    /\ entry = "none"
    /\ RbRest
    /\ FlRest
    /\ ClRest
    /\ RtRest
    /\ CyRest
    /\ FbRest
    /\ TkInit

SpecTicks == TkSpecInit /\ [][TkNext]_vars

\* one call of fetchTokenBalance or fetchAPTBalance
FbSpecInit ==
    /\ clock = ClockStart
    /\ TxInit
    /\ WkInit
    /\ poolEnabled = [p \in Pools |-> TRUE]
    /\ entry = "none"
    /\ RbRest
    /\ FlRest
    /\ ClRest
    /\ RtRest
    /\ CyRest
    /\ TkRest
    /\ FbInit

SpecFetch == FbSpecInit /\ [][FbNext]_vars

====
